---- MODULE Spec2Model ----
(***************************************************************************)
(* State-machine model of the ULSS 9 chatbot backend core:                 *)
(*   - app/services/store_selector.py  (store selection by user query)     *)
(*   - app/agents/univr_agent.py       (RAG agent: tools, chat, citations) *)
(*   - app/api/auth.py, app/api/admin.py (admin token, admin requests)     *)
(*   - app/services/store_manager.py   (stores and documents of the        *)
(*     hosted service), app/services/extra_stores.py (saved descriptions)  *)
(*   - app/api/chat.py                 (POST /chat and GET /domains)       *)
(* Python values are modelled as follows: None is the string NoneVal, a    *)
(* missing dict key is the string Absent, a str is a TLA+ string (ids,     *)
(* titles, urls) or a sequence of one-character strings (chunk content),   *)
(* a list is a sequence, a dict over a fixed key set is a function.        *)
(***************************************************************************)
EXTENDS Integers, Sequences, FiniteSets, TLC

VARIABLES
    apiKey,      \* config.GEMINI_API_KEY is set (truthy)
    s_pc,        \* selector call: "idle" | "done"
    s_client,    \* selector argument client: NoneVal | Client
    s_extra,     \* selector argument extra_stores: [isNone, items]
    s_outcome,   \* what client.models.generate_content did in this call
    s_ret,       \* list returned by select_stores_for_query
    s_raised,    \* select_stores_for_query raised to its caller
    s_calls,     \* number of remote classification calls issued by the call
    s_full,      \* full_list built by _build_store_list in the call
    e_mode,      \* which grounding chunks the response may carry (ChunkPool)
    e_pc,        \* _extract_sources_and_links: "start" | "loop" | "done"
    e_shape,     \* shape of the response handed to the extraction
    e_chunks,    \* grounding chunks traversed so far, in traversal order
    e_sources,   \* local list sources
    e_links,     \* local list links
    e_seen,      \* local set links_seen
    e_raised,    \* the extraction raised
    agent_client, \* UniVRAgent.client of the singleton agent: NoneVal | Client
    backend,     \* file search stores of the hosted service, in listing order
    c_pc,        \* agent.chat call: "idle" | "done"
    c_in,        \* arguments of the call and what the hosted service did in it
    c_out,       \* what the call returned and which remote calls it issued
    documents,   \* documents of the hosted service, in listing order
    uploads,     \* names of the files in the local upload directory DATA_DIR
    descriptions, \* content of data/store_descriptions.json: id -> description
    a_req,       \* the last request to the admin API or to GET /domains
    a_resp,      \* the response to it
    allowEnglish, \* config.ALLOW_ENGLISH
    ep_req,      \* the last request to POST /chat and what the service did
    ep_resp,     \* the response to it
    ep_trace,    \* calls the handler made, in order
    ep_remote,   \* requests the handler sent to the hosted model, in order
    ep_prev,     \* the previous request, when this one repeats it
    cc_init,     \* concurrent requests: agent.client when the first one arrived
    cc_in,       \* the requests and what the service does during each
    cc_pc,       \* where the handler of each request is
    cc_mid,      \* locals of each handler: selected_ids and result
    cc_resp,     \* the response to each request
    u_pc,        \* upload_document, step by step: where it is
    u_store,     \* store.name found for the domain
    u_temp,      \* temp_file.state.name as last read
    u_op,        \* operation.done as last read
    u_polls,     \* polls made by the two waiting loops
    u_out,       \* how upload_document ended
    b_file,      \* state of the temporary file at the hosted service
    b_op         \* whether the hosted service has finished the indexing

selVars == <<s_pc, s_client, s_extra, s_outcome, s_ret, s_raised, s_calls, s_full>>

extVars == <<e_mode, e_pc, e_shape, e_chunks, e_sources, e_links, e_seen, e_raised>>

chatVars == <<agent_client, backend, c_pc, c_in, c_out>>

admVars == <<documents, uploads, descriptions, a_req, a_resp>>

epVars == <<allowEnglish, ep_req, ep_resp, ep_trace, ep_remote, ep_prev>>

ccVars == <<cc_init, cc_in, cc_pc, cc_mid, cc_resp>>

upVars == <<u_pc, u_store, u_temp, u_op, u_polls, u_out, b_file, b_op>>

vars == <<apiKey, selVars, extVars, chatVars, admVars, epVars, ccVars, upVars>>

(***************************************************************************)
(* Python values                                                           *)
(***************************************************************************)
NoneVal == "<None>"
Absent == "<absent>"
Client == "<genai.Client>"

\* Python truthiness of an Optional[str].
Truthy(x) == x # NoneVal /\ x # Absent /\ x # ""

\* dict.get(k): None when the key is missing.
Get(d, k) == IF d[k] = Absent THEN NoneVal ELSE d[k]

\* dict.get(k, default).
GetDefault(d, k, default) == IF d[k] = Absent THEN default ELSE d[k]

\* a or b
Or(a, b) == IF Truthy(a) THEN a ELSE b

Range(seq) == {seq[i] : i \in 1..Len(seq)}

\* All sequences over S of length at most n.
SeqsUpTo(S, n) == UNION {[1..k -> S] : k \in 0..n}

\* [x for x in seq if x in S]
RECURSIVE FilterIn(_, _)
FilterIn(seq, S) ==
    IF seq = <<>> THEN <<>>
    ELSE IF Head(seq) \in S
         THEN <<Head(seq)>> \o FilterIn(Tail(seq), S)
         ELSE FilterIn(Tail(seq), S)

\* The empty dict of data/store_descriptions.json (also: the file is missing).
NoDescriptions == <<>>

NoAdminRequest == [op |-> "none"]
NoAdminResponse == [status |-> 0]

NoChatRequest == [op |-> "none"]
NoChatResponse == [status |-> 0]
NoPrevious == [repeated |-> FALSE, remote |-> <<>>]

(***************************************************************************)
(* Bounds of the model                                                     *)
(***************************************************************************)
MaxExtra == 2     \* longest extra_stores list
MaxSel == 2       \* longest list of ids in the classification answer
MaxChunks == 6    \* longest grounding chunk list (citation keys varied)
MaxContentLen == 203   \* longest chunk content, in characters
MaxContentChunks == 1  \* longest grounding chunk list (content length varied)
MaxIds == 2       \* longest store_ids list given to agent.chat
MaxStores == 4    \* most stores the hosted service holds at a time
MaxDocs == 2      \* most documents the hosted service holds at a time
MaxPolls == 2       \* polls of a waiting loop that are counted
MaxRequests == 2    \* requests to POST /chat served concurrently
MaxMetaChunks == 2     \* longest grounding chunk list (metadata varied)

(***************************************************************************)
(* app/config.py                                                           *)
(***************************************************************************)
STORE_PREFIX == "ulss9"

ULSS9_STORES ==
    << [id |-> "general_info", description |-> "desc_general_info"],
       [id |-> "hours", description |-> "desc_hours"],
       [id |-> "locations", description |-> "desc_locations"],
       [id |-> "services", description |-> "desc_services"] >>

(***************************************************************************)
(* app/services/store_selector.py                                          *)
(***************************************************************************)

\* One extra store dict: sid = s.get("id") or s.get("domain"),
\* desc = s.get("description") or s.get("display_name", "").
ExtraEntry(s) ==
    [id |-> Or(Get(s, "id"), Get(s, "domain")),
     description |-> Or(Get(s, "description"), GetDefault(s, "display_name", ""))]

\* Mutant: an extra store is appended even when its id is already listed.
RECURSIVE BuildLoopNoIdCheck(_, _)
BuildLoopNoIdCheck(acc, rest) ==
    IF rest = <<>> THEN acc
    ELSE LET e == ExtraEntry(Head(rest))
         IN IF Truthy(e.id)
            THEN BuildLoopNoIdCheck([full_list |-> Append(acc.full_list, e),
                                     valid_ids |-> acc.valid_ids \cup {e.id}],
                                    Tail(rest))
            ELSE BuildLoopNoIdCheck(acc, Tail(rest))

\* The loop of _build_store_list over extra_stores, acc = [full_list, valid_ids].
RECURSIVE BuildLoop(_, _)
BuildLoop(acc, rest) ==
    IF rest = <<>> THEN acc
    ELSE LET e == ExtraEntry(Head(rest))
         IN IF Truthy(e.id) /\ e.id \notin acc.valid_ids
            THEN BuildLoop([full_list |-> Append(acc.full_list, e),
                            valid_ids |-> acc.valid_ids \cup {e.id}],
                           Tail(rest))
            ELSE BuildLoop(acc, Tail(rest))

\* _build_store_list(extra_stores): `if extra_stores:` skips None and [].
BuildStoreList(extra) ==
    LET init == [full_list |-> ULSS9_STORES,
                 valid_ids |-> {ULSS9_STORES[i].id : i \in 1..Len(ULSS9_STORES)}]
    IN IF extra.isNone \/ extra.items = <<>> THEN init
       ELSE BuildLoop(init, extra.items)

\* Mutant: the ids returned by the model are not filtered against the registry.
SelectKeepNoFilter(stores, valid_ids) == stores

\* selected = [s for s in parsed.stores if s in valid_ids]
SelectKeep(stores, valid_ids) == FilterIn(stores, valid_ids)

\* The body of the try block: [raised, ret]. The remote call either raises or
\* returns a response whose .parsed is None, some other object, or a
\* StoreSelectionOutput.
SelectTryBody(outcome, valid_ids) ==
    IF outcome.kind = "raise" THEN [raised |-> TRUE, ret |-> <<>>]
    ELSE IF outcome.kind # "ok"
         THEN [raised |-> FALSE, ret |-> <<"general_info">>]
         ELSE LET selected == SelectKeep(outcome.stores, valid_ids)
              IN [raised |-> FALSE,
                  ret |-> IF selected = <<>> THEN <<"general_info">> ELSE selected]

\* Mutant: no except clause, the exception of the remote call propagates.
SelectStoresNoExcept(client, key, extra, outcome) ==
    LET built == BuildStoreList(extra)
    IN IF ~Truthy(client) \/ ~key
       THEN [raised |-> FALSE, ret |-> <<"general_info">>, calls |-> 0]
       ELSE LET body == SelectTryBody(outcome, built.valid_ids)
            IN [raised |-> body.raised, ret |-> body.ret, calls |-> 1]

\* select_stores_for_query(client, user_message, extra_stores):
\* [raised, ret, calls].
\* Mutant: a classification that raised is tried once more.
SelectStoresRetry(client, key, extra, outcome) ==
    LET built == BuildStoreList(extra)
    IN IF ~Truthy(client) \/ ~key
       THEN [raised |-> FALSE, ret |-> <<"general_info">>, calls |-> 0]
       ELSE LET body == SelectTryBody(outcome, built.valid_ids)
            IN IF body.raised
               THEN [raised |-> FALSE, ret |-> <<"general_info">>, calls |-> 2]
               ELSE [raised |-> FALSE, ret |-> body.ret, calls |-> 1]

SelectStoresForQuery(client, key, extra, outcome) ==
    LET built == BuildStoreList(extra)
    IN IF ~Truthy(client) \/ ~key
       THEN [raised |-> FALSE, ret |-> <<"general_info">>, calls |-> 0]
       ELSE LET body == SelectTryBody(outcome, built.valid_ids)
            IN IF body.raised
               THEN [raised |-> FALSE, ret |-> <<"general_info">>, calls |-> 1]
               ELSE [raised |-> FALSE, ret |-> body.ret, calls |-> 1]

(***************************************************************************)
(* app/agents/univr_agent.py: _extract_sources_and_links                   *)
(***************************************************************************)
SNIPPET_MAX == 200
LINK_CAP == 5
Ellipsis == <<".", ".", ".">>

MetaKeys == {"title", "display_name", "url", "document_id", "source_type"}

EmptyMeta == [k \in MetaKeys |-> Absent]

\* content = getattr(chunk, "content", "") or ""
ContentOf(chunk) == IF chunk.content.isNone THEN <<>> ELSE chunk.content.s

\* Mutant: the length test is >= instead of >.
SnippetOffByOne(content) ==
    IF Len(content) >= SNIPPET_MAX
    THEN SubSeq(content, 1, SNIPPET_MAX) \o Ellipsis
    ELSE content

\* snippet = (content[:200] + "...") if len(content) > 200 else content
Snippet(content) ==
    IF Len(content) > SNIPPET_MAX
    THEN SubSeq(content, 1, SNIPPET_MAX) \o Ellipsis
    ELSE content

\* Mutant: an entry of the retrieved context is written only for a key the
\* top-level metadata does not define.
RECURSIVE MergeEntriesTopWins(_, _)
MergeEntriesTopWins(meta, entries) ==
    IF entries = <<>> THEN meta
    ELSE LET m == Head(entries)
         IN MergeEntriesTopWins(IF m.hasAttrs /\ m.key \in DOMAIN meta
                                   /\ meta[m.key] = Absent
                                THEN [meta EXCEPT ![m.key] = m.string_value]
                                ELSE meta,
                                Tail(entries))

\* for m in rc.custom_metadata: if hasattr(m, "key") and
\* hasattr(m, "string_value"): meta[m.key] = m.string_value
RECURSIVE MergeEntries(_, _)
MergeEntries(meta, entries) ==
    IF entries = <<>> THEN meta
    ELSE LET m == Head(entries)
         IN MergeEntries(IF m.hasAttrs /\ m.key \in DOMAIN meta
                         THEN [meta EXCEPT ![m.key] = m.string_value]
                         ELSE meta,
                         Tail(entries))

\* meta = getattr(chunk, "custom_metadata", None) or {}, then the entries of
\* chunk.retrieved_context.custom_metadata written over it.
MetaOf(chunk) ==
    LET top == IF chunk.top.kind = "dict" THEN chunk.top.d ELSE EmptyMeta
    IN IF chunk.rc.kind = "list" THEN MergeEntries(top, chunk.rc.items) ELSE top

\* A top-level custom_metadata that is a non-empty non-dict (a list) makes
\* meta[...] = ... or meta.get(...) raise.
ChunkRaises(chunk) == chunk.top.kind = "list"

TitleOf(meta) == Or(Or(Get(meta, "title"), Get(meta, "display_name")), "Fonte")

SourceTypeOf(meta) ==
    GetDefault(meta, "source_type",
               IF Truthy(Get(meta, "url")) THEN "website" ELSE "attachment")

\* Mutant: the document id is put into the source as well.
SourceEntryWithDocumentId(chunk) ==
    LET meta == MetaOf(chunk)
    IN [title |-> TitleOf(meta),
        url |-> Get(meta, "url"),
        document_id |-> Get(meta, "document_id"),
        snippet |-> Snippet(ContentOf(chunk)),
        source_type |-> SourceTypeOf(meta)]

\* The dict appended to sources.
SourceEntry(chunk) ==
    LET meta == MetaOf(chunk)
    IN [title |-> TitleOf(meta),
        url |-> Get(meta, "url"),
        snippet |-> Snippet(ContentOf(chunk)),
        source_type |-> SourceTypeOf(meta)]

\* key = (url or doc_id or "", title)
LinkKey(chunk) ==
    LET meta == MetaOf(chunk)
    IN <<Or(Or(Get(meta, "url"), Get(meta, "document_id")), ""), TitleOf(meta)>>

\* Mutant: the url is put into the link entry whatever it is.
LinkEntryAlwaysUrl(chunk) ==
    LET meta == MetaOf(chunk)
        doc_id == Get(meta, "document_id")
    IN [title |-> TitleOf(meta),
        source_type |-> SourceTypeOf(meta),
        url |-> Get(meta, "url"),
        document_id |-> IF Truthy(doc_id) THEN doc_id ELSE Absent]

\* link_entry: url and document_id are set only when truthy.
LinkEntry(chunk) ==
    LET meta == MetaOf(chunk)
        url == Get(meta, "url")
        doc_id == Get(meta, "document_id")
    IN [title |-> TitleOf(meta),
        source_type |-> SourceTypeOf(meta),
        url |-> IF Truthy(url) THEN url ELSE Absent,
        document_id |-> IF Truthy(doc_id) THEN doc_id ELSE Absent]

\* Mutant: the cap test is > instead of >=.
LinkSkippedCapOffByOne(acc, chunk) ==
    LinkKey(chunk) \in acc.links_seen \/ Len(acc.links) > LINK_CAP

\* Mutant: the key is not looked up in links_seen.
LinkSkippedNoDedup(acc, chunk) == Len(acc.links) >= LINK_CAP

\* Mutant: a chunk without url and document id gets no link.
LinkSkippedNoLocator(acc, chunk) ==
    \/ LinkKey(chunk)[1] = ""
    \/ LinkKey(chunk) \in acc.links_seen
    \/ Len(acc.links) >= LINK_CAP

\* if key in links_seen or len(links) >= 5: continue
LinkSkipped(acc, chunk) ==
    LinkKey(chunk) \in acc.links_seen \/ Len(acc.links) >= LINK_CAP

\* Mutant: the source is appended after the dedup/cap test, so a skipped chunk
\* gets no source.
LoopBodySourceAfterSkip(acc, chunk) ==
    IF ChunkRaises(chunk) THEN [acc EXCEPT !.raised = TRUE]
    ELSE IF LinkSkipped(acc, chunk) THEN acc
         ELSE [acc EXCEPT !.sources = Append(@, SourceEntry(chunk)),
                          !.links_seen = @ \cup {LinkKey(chunk)},
                          !.links = Append(@, LinkEntry(chunk))]

\* One iteration of `for chunk in chunks`, acc = [sources, links, links_seen,
\* raised].
LoopBody(acc, chunk) ==
    IF ChunkRaises(chunk) THEN [acc EXCEPT !.raised = TRUE]
    ELSE LET withSource == [acc EXCEPT !.sources = Append(@, SourceEntry(chunk))]
         IN IF LinkSkipped(acc, chunk) THEN withSource
            ELSE [withSource EXCEPT !.links_seen = @ \cup {LinkKey(chunk)},
                                    !.links = Append(@, LinkEntry(chunk))]

ExtractStart == [sources |-> <<>>, links |-> <<>>, links_seen |-> {}, raised |-> FALSE]

RECURSIVE ExtractLoop(_, _)
ExtractLoop(acc, chunks) ==
    IF chunks = <<>> \/ acc.raised THEN acc
    ELSE ExtractLoop(LoopBody(acc, Head(chunks)), Tail(chunks))

\* `if not response.candidates or not response.candidates[0].grounding_metadata`
EarlyReturn(shape) == shape \in {"no_candidates", "no_gm"}

\* _extract_sources_and_links(response) as a whole, response = [shape, chunks]:
\* chunks = getattr(gm, "grounding_chunks", None) or [].
ExtractSourcesAndLinks(response) ==
    IF EarlyReturn(response.shape) THEN ExtractStart
    ELSE ExtractLoop(ExtractStart,
                     IF response.shape = "chunks" THEN response.chunks ELSE <<>>)

(***************************************************************************)
(* Grounding chunks the hosted model may return                            *)
(***************************************************************************)
Chars == <<"a", ".", "b">>

\* A content of n characters; the k-th character depends on k.
ContentOfLen(n) == [k \in 1..n |-> Chars[(k % 3) + 1]]

StrContent(s) == [isNone |-> FALSE, s |-> s]
NoContent == [isNone |-> TRUE, s |-> <<>>]
NoTop == [kind |-> "none", d |-> EmptyMeta]
NoRc == [kind |-> "none", items |-> <<>>]
MetaEntry(k, v) == [key |-> k, string_value |-> v, hasAttrs |-> TRUE]

\* A chunk whose retrieved context carries title, url and more.
CitedChunk(title, url, docId, sourceType) ==
    [content |-> StrContent(<<"a">>),
     top |-> NoTop,
     rc |-> [kind |-> "list",
             items |-> <<MetaEntry("title", title), MetaEntry("url", url)>>
                       \o (IF docId = Absent THEN <<>>
                           ELSE <<MetaEntry("document_id", docId)>>)
                       \o (IF sourceType = Absent THEN <<>>
                           ELSE <<MetaEntry("source_type", sourceType)>>)]]

\* Six chunks of pairwise distinct title and url.
DistinctChunks ==
    << CitedChunk("t1", "https://u1", Absent, Absent),
       CitedChunk("t2", "https://u2", Absent, Absent),
       CitedChunk("t3", "https://u3", Absent, Absent),
       CitedChunk("t4", "https://u4", Absent, Absent),
       CitedChunk("t5", "https://u5", Absent, Absent),
       CitedChunk("t6", "https://u6", Absent, Absent) >>

\* A chunk with the key of the first of DistinctChunks but another document id
\* and source kind.
SameKeyChunk == CitedChunk("t1", "https://u1", "doc9", "pdf")

\* A chunk cited by document id only, and one without any metadata or content.
DocOnlyChunk ==
    [content |-> StrContent(<<"b">>),
     top |-> NoTop,
     rc |-> [kind |-> "list",
             items |-> <<MetaEntry("title", "t1"), MetaEntry("document_id", "doc1")>>]]

BareChunk == [content |-> NoContent, top |-> NoTop, rc |-> NoRc]

\* A chunk whose top-level metadata gives a title and a url, and whose
\* retrieved context gives another title: its key is that of the first of
\* DistinctChunks.
OverrideChunk ==
    [content |-> StrContent(<<"a", "b">>),
     top |-> [kind |-> "dict",
              d |-> [EmptyMeta EXCEPT !["title"] = "t_top", !["url"] = "https://u1"]],
     rc |-> [kind |-> "list", items |-> <<MetaEntry("title", "t1")>>]]

\* A chunk whose top-level metadata is not a dict.
BadChunk == [content |-> NoContent, top |-> [kind |-> "list", d |-> EmptyMeta], rc |-> NoRc]

\* The chunks that may follow the chunks traversed so far. The extraction only
\* compares titles and urls for equality, so chunk lists are enumerated up to
\* the renaming of titles and urls: the k-th new title/url pair of a list is
\* the k-th of DistinctChunks.
KeyChunks(sofar) ==
    LET used == Cardinality({i \in 1..Len(DistinctChunks) :
                                DistinctChunks[i] \in Range(sofar)})
    IN {DistinctChunks[i] : i \in 1..(IF used < Len(DistinctChunks)
                                      THEN used + 1 ELSE used)}
       \cup {SameKeyChunk, DocOnlyChunk, BareChunk, OverrideChunk, BadChunk}

\* Chunks without metadata whose content has every length up to MaxContentLen.
ContentChunks ==
    {[content |-> NoContent, top |-> NoTop, rc |-> NoRc]}
    \cup {[content |-> StrContent(ContentOfLen(n)), top |-> NoTop, rc |-> NoRc] :
            n \in 0..MaxContentLen}

\* Top-level custom_metadata of a chunk: none, or a dict.
TopMetas ==
    {NoTop,
     [kind |-> "dict",
      d |-> [EmptyMeta EXCEPT !["title"] = "t_top", !["url"] = "https://u_top",
                              !["document_id"] = "doc_top",
                              !["source_type"] = "kind_top"]],
     [kind |-> "dict", d |-> [EmptyMeta EXCEPT !["display_name"] = "n_top"]],
     [kind |-> "dict", d |-> [EmptyMeta EXCEPT !["document_id"] = "doc_top"]]}

\* An entry of retrieved_context.custom_metadata without string_value.
NumericEntry(k) == [key |-> k, string_value |-> "", hasAttrs |-> FALSE]

\* custom_metadata of the retrieved context of a chunk: none, or a list of
\* entries (a value may be empty, a key may come twice).
RcMetas ==
    {NoRc}
    \cup {[kind |-> "list", items |-> l] :
            l \in {<<>>,
                   <<MetaEntry("title", "t_rc")>>,
                   <<MetaEntry("title", "t_rc"), MetaEntry("url", "https://u_rc"),
                     MetaEntry("document_id", "doc_rc"),
                     MetaEntry("source_type", "kind_rc")>>,
                   <<MetaEntry("document_id", "doc_rc")>>,
                   <<MetaEntry("url", ""), MetaEntry("title", "t_rc")>>,
                   <<NumericEntry("title"), MetaEntry("url", "https://u_rc")>>,
                   <<MetaEntry("title", NoneVal)>>,
                   <<MetaEntry("title", "t_old"), MetaEntry("title", "t_rc")>>}}

\* Chunks with every combination of the two metadata.
MetaChunks ==
    {[content |-> StrContent(<<"a">>), top |-> t, rc |-> r] :
        t \in TopMetas, r \in RcMetas}

ChunkPool(mode, sofar) ==
    IF mode = "keys" THEN KeyChunks(sofar)
    ELSE IF mode = "meta" THEN MetaChunks ELSE ContentChunks

ChunkLimit(mode) ==
    IF mode = "keys" THEN MaxChunks
    ELSE IF mode = "meta" THEN MaxMetaChunks ELSE MaxContentChunks

ResponseShapes == {"no_candidates", "no_gm", "chunks_none", "chunks"}

(***************************************************************************)
(* app/agents/univr_agent.py: client handle, tools, chat                   *)
(***************************************************************************)

\* f"{STORE_PREFIX}-{domain}", kept as the pair of its two parts.
DisplayName(domain) == <<STORE_PREFIX, domain>>

\* _initialize(): no key, the handle is left alone; else genai.Client(...)
\* succeeds (initOk) or raises and the handle is None.
Initialize(handle, key, initOk) ==
    IF ~key THEN handle
    ELSE IF initOk THEN Client ELSE NoneVal

NoStore == [found |-> FALSE, name |-> NoneVal]

\* for store in stores: if store.display_name == display_name: return store
RECURSIVE FirstStore(_, _)
FirstStore(stores, displayName) ==
    IF stores = <<>> THEN NoStore
    ELSE IF Head(stores).display_name = displayName
         THEN [found |-> TRUE, name |-> Head(stores).name]
         ELSE FirstStore(Tail(stores), displayName)

\* _get_store(domain); listFails: file_search_stores.list() raises, which is
\* caught and logged.
GetStore(handle, stores, domain, listFails) ==
    IF ~Truthy(handle) THEN NoStore
    ELSE IF listFails THEN NoStore
         ELSE FirstStore(stores, DisplayName(domain))

\* `if store and store.name`
Usable(store) == store.found /\ Truthy(store.name)

\* Mutant: the loop ends at the first id that does not resolve.
RECURSIVE MultiLoopBreak(_, _, _, _, _, _)
MultiLoopBreak(acc, handle, stores, ids, listFail, i) ==
    IF i > Len(ids) THEN acc
    ELSE LET store == GetStore(handle, stores, ids[i], listFail[i])
         IN IF Usable(store)
            THEN MultiLoopBreak([store_names |-> Append(acc.store_names, store.name),
                                 stores_used |-> Append(acc.stores_used, ids[i])],
                                handle, stores, ids, listFail, i + 1)
            ELSE acc

\* The multi-store loop of _build_tools from the i-th id on,
\* acc = [store_names, stores_used].
RECURSIVE MultiLoop(_, _, _, _, _, _)
MultiLoop(acc, handle, stores, ids, listFail, i) ==
    IF i > Len(ids) THEN acc
    ELSE LET store == GetStore(handle, stores, ids[i], listFail[i])
         IN MultiLoop(IF Usable(store)
                      THEN [store_names |-> Append(acc.store_names, store.name),
                            stores_used |-> Append(acc.stores_used, ids[i])]
                      ELSE acc,
                      handle, stores, ids, listFail, i + 1)

\* The branch of _build_tools taken: `if store_ids:` ... `elif domain:` ...
ToolsMode(domain, store_ids) ==
    IF ~store_ids.isNone /\ store_ids.items # <<>> THEN "multi"
    ELSE IF Truthy(domain) THEN "single"
         ELSE "none"

\* Number of file_search_stores.list() calls _build_tools makes.
ListCalls(domain, store_ids) ==
    LET mode == ToolsMode(domain, store_ids)
    IN IF mode = "multi" THEN Len(store_ids.items)
       ELSE IF mode = "single" THEN 1 ELSE 0

\* _build_tools(domain, store_ids): tools is a list of at most one file search
\* tool, given as the list of its store names.
BuildTools(handle, stores, domain, store_ids, listFail) ==
    LET mode == ToolsMode(domain, store_ids)
    IN IF mode = "multi"
       THEN LET r == MultiLoop([store_names |-> <<>>, stores_used |-> <<>>],
                               handle, stores, store_ids.items, listFail, 1)
            IN [tools |-> IF r.store_names # <<>> THEN <<r.store_names>> ELSE <<>>,
                stores_used |-> r.stores_used]
       ELSE IF mode = "single"
            THEN LET store == GetStore(handle, stores, domain, listFail[1])
                 IN IF Usable(store)
                    THEN [tools |-> <<<<store.name>>>>, stores_used |-> <<domain>>]
                    ELSE [tools |-> <<>>, stores_used |-> <<>>]
            ELSE [tools |-> <<>>, stores_used |-> <<>>]

\* (language or "it").strip().lower() on the language values of the model.
StripLower(language) ==
    IF ~Truthy(language) THEN "it"
    ELSE IF language \in {"en", " EN "} THEN "en"
         ELSE IF language \in {"it", "IT"} THEN "it"
              ELSE language

\* lang of chat(): anything but "en" and "it" is "it".
ChatLang(language) ==
    LET lang == StripLower(language)
    IN IF lang \notin {"en", "it"} THEN "it" ELSE lang

\* _system_instruction(language): the base text and the language rule.
SystemInstruction(lang) ==
    <<"SYSTEM_INSTRUCTION_BASE",
      IF lang = "en" THEN "Always respond in English." ELSE "Rispondi sempre in italiano.">>

DEMO_MARKER == "Modalita demo: configura GEMINI_API_KEY"

\* _demo_response(message): the text is kept as the list of its paragraphs.
DemoResponse(message) ==
    [response |-> <<"Benvenuto nell'assistente ULSS 9 Scaligera.",
                    "Posso aiutarti a trovare informazioni su:",
                    "Esempi di domande:",
                    DEMO_MARKER>>,
     sources |-> <<>>,
     links |-> <<>>,
     stores_used |-> <<>>]

NoPayload == [response |-> <<>>, sources |-> <<>>, links |-> <<>>, stores_used |-> <<>>]

RemoteCall(op, message, tools, instruction) ==
    [op |-> op, message |-> message, tools |-> tools, instruction |-> instruction]

ListCall == RemoteCall("file_search_stores.list", "", <<>>, <<>>)

\* The try block of chat(): [raised, payload, calls]. in.create and in.send say
\* what chats.create and send_message do, in.response is the response object.
ChatTryBody(handle, stores, in) ==
    LET built == BuildTools(handle, stores, in.domain, in.store_ids, in.listFail)
        lang == ChatLang(in.language)
        lists == [i \in 1..ListCalls(in.domain, in.store_ids) |-> ListCall]
        create == RemoteCall("chats.create", "", built.tools, SystemInstruction(lang))
        send == RemoteCall("send_message", in.message, built.tools, SystemInstruction(lang))
        failed(calls) == [raised |-> TRUE, payload |-> NoPayload, calls |-> calls]
    IN IF in.create = "raise" THEN failed(lists \o <<create>>)
       ELSE IF in.send \in {"raise", "null", "no_candidates", "empty_text"}
            THEN failed(lists \o <<create, send>>)
            ELSE LET ex == ExtractSourcesAndLinks(in.response)
                 IN IF ex.raised THEN failed(lists \o <<create, send>>)
                    ELSE [raised |-> FALSE,
                          payload |-> [response |-> in.text,
                                       sources |-> ex.sources,
                                       links |-> ex.links,
                                       stores_used |-> built.stores_used],
                          calls |-> lists \o <<create, send>>]

\* Mutant: no except clause around the try block of chat().
AgentChatNoExcept(handle, key, stores, in) ==
    LET handle1 == IF ~Truthy(handle) /\ key
                   THEN Initialize(handle, key, in.initOk) ELSE handle
    IN IF ~Truthy(handle1)
       THEN [client |-> handle1, raised |-> FALSE,
             payload |-> DemoResponse(in.message), calls |-> <<>>]
       ELSE LET body == ChatTryBody(handle1, stores, in)
            IN [client |-> handle1, raised |-> body.raised,
                payload |-> body.payload, calls |-> body.calls]

\* Mutant: without a client the call still goes to the hosted model.
AgentChatNoDemoGate(handle, key, stores, in) ==
    LET handle1 == IF ~Truthy(handle) /\ key
                   THEN Initialize(handle, key, in.initOk) ELSE handle
        body == ChatTryBody(handle1, stores, in)
    IN [client |-> handle1, raised |-> FALSE,
        payload |-> IF body.raised THEN DemoResponse(in.message) ELSE body.payload,
        calls |-> body.calls]

\* Mutant: chat() initialises the client at every call.
AgentChatAlwaysInit(handle, key, stores, in) ==
    LET handle1 == Initialize(handle, key, in.initOk)
    IN IF ~Truthy(handle1)
       THEN [client |-> handle1, raised |-> FALSE,
             payload |-> DemoResponse(in.message), calls |-> <<>>]
       ELSE LET body == ChatTryBody(handle1, stores, in)
            IN [client |-> handle1, raised |-> FALSE,
                payload |-> IF body.raised THEN DemoResponse(in.message)
                            ELSE body.payload,
                calls |-> body.calls]

\* chat(message, domain, store_ids, language): [client, raised, payload, calls],
\* client being the handle after the call.
AgentChat(handle, key, stores, in) ==
    LET handle1 == IF ~Truthy(handle) /\ key
                   THEN Initialize(handle, key, in.initOk) ELSE handle
    IN IF ~Truthy(handle1)
       THEN [client |-> handle1, raised |-> FALSE,
             payload |-> DemoResponse(in.message), calls |-> <<>>]
       ELSE LET body == ChatTryBody(handle1, stores, in)
            IN [client |-> handle1, raised |-> FALSE,
                payload |-> IF body.raised THEN DemoResponse(in.message)
                            ELSE body.payload,
                calls |-> body.calls]

(***************************************************************************)
(* Inputs of agent.chat and answers of the hosted service                  *)
(***************************************************************************)
StorePool ==
    {[display_name |-> DisplayName("hours"), name |-> "fileSearchStores/h1"],
     [display_name |-> DisplayName("locations"), name |-> "fileSearchStores/l1"],
     [display_name |-> DisplayName("locations"), name |-> ""]}

\* Every listing of some of the stores, each store listed once.
Backends ==
    {l \in SeqsUpTo(StorePool, Cardinality(StorePool)) :
        \A i, j \in 1..Len(l) : i # j => l[i] # l[j]}

ChatMessages == {"m1", "m2"}
ChatDomains == {NoneVal, "hours"}
ChatLanguages == {NoneVal, "en"}

ChatStoreIds ==
    {[isNone |-> TRUE, items |-> <<>>]}
    \cup {[isNone |-> FALSE, items |-> l] : l \in SeqsUpTo({"hours", "locations"}, MaxIds)}

NoResponse == [shape |-> "no_candidates", chunks |-> <<>>]

\* Response objects with candidates and a text.
ChatResponses ==
    {[shape |-> "no_gm", chunks |-> <<>>], [shape |-> "chunks_none", chunks |-> <<>>]}
    \cup {[shape |-> "chunks", chunks |-> l] :
            l \in {<<DistinctChunks[1], SameKeyChunk>>, <<DocOnlyChunk, BadChunk>>}}

\* What chats.create and send_message do in one call.
ChatOutcomes ==
    {[create |-> "raise", send |-> "nocall", response |-> NoResponse, text |-> <<>>]}
    \cup {[create |-> "ok", send |-> s, response |-> NoResponse, text |-> <<>>] :
            s \in {"raise", "null", "no_candidates"}}
    \cup {[create |-> "ok", send |-> "empty_text", response |-> r, text |-> <<>>] :
            r \in {[shape |-> "no_gm", chunks |-> <<>>]}}
    \cup {[create |-> "ok", send |-> "ok", response |-> r, text |-> <<"answer">>] :
            r \in ChatResponses}

\* The handle at entry and the arguments of one call, together with what
\* genai.Client(...) and the hosted service do in it.
ChatInput(h, m, d, ids, l, ok, lf, o) ==
    [handle |-> h, message |-> m, domain |-> d, store_ids |-> ids, language |-> l,
     initOk |-> ok, listFail |-> lf,
     create |-> o.create, send |-> o.send, response |-> o.response, text |-> o.text]

NoChatInput ==
    ChatInput(NoneVal, "", NoneVal, [isNone |-> TRUE, items |-> <<>>], NoneVal, FALSE, <<>>,
              [create |-> "nocall", send |-> "nocall", response |-> NoResponse,
               text |-> <<>>])

NoChatOutput == [raised |-> FALSE, payload |-> NoPayload, calls |-> <<>>]

(***************************************************************************)
(* Inputs of the selector                                                  *)
(***************************************************************************)
ExtraDicts ==
    [id : {Absent, "docs", "hours"},
     domain : {Absent, "news"},
     description : {Absent, "desc_a"},
     display_name : {"name_a"}]

ExtraInputs ==
    {[isNone |-> TRUE, items |-> <<>>]}
    \cup {[isNone |-> FALSE, items |-> l] : l \in SeqsUpTo(ExtraDicts, MaxExtra)}

\* Ids the hosted model may answer: seed ids, extra ids and an invented one.
AnswerIds == {"general_info", "hours", "docs", "news", "bogus"}

SelOutcomes ==
    {[kind |-> k, stores |-> <<>>] : k \in {"raise", "none", "wrongtype"}}
    \cup {[kind |-> "ok", stores |-> l] : l \in SeqsUpTo(AnswerIds, MaxSel)}

NoOutcome == [kind |-> "nocall", stores |-> <<>>]

(***************************************************************************)
(* Selector specification                                                  *)
(***************************************************************************)
SelIdle ==
    /\ s_pc = "off"
    /\ s_client = NoneVal
    /\ s_extra = [isNone |-> TRUE, items |-> <<>>]
    /\ s_outcome = NoOutcome
    /\ s_ret = <<>>
    /\ s_raised = FALSE
    /\ s_calls = 0
    /\ s_full = <<>>

ExtIdle ==
    /\ e_mode = "off"
    /\ e_pc = "off"
    /\ e_shape = "chunks"
    /\ e_chunks = <<>>
    /\ e_sources = <<>>
    /\ e_links = <<>>
    /\ e_seen = {}
    /\ e_raised = FALSE

ChatIdle ==
    /\ agent_client = NoneVal
    /\ backend = <<>>
    /\ c_pc = "off"
    /\ c_in = NoChatInput
    /\ c_out = NoChatOutput

\* No admin request was made: nothing uploaded, no description saved.
AdmIdle ==
    /\ documents = <<>>
    /\ uploads = {}
    /\ descriptions = NoDescriptions
    /\ a_req = NoAdminRequest
    /\ a_resp = NoAdminResponse

EpIdle ==
    /\ allowEnglish = FALSE
    /\ ep_req = NoChatRequest
    /\ ep_resp = NoChatResponse
    /\ ep_trace = <<>>
    /\ ep_remote = <<>>
    /\ ep_prev = NoPrevious

CcIdle ==
    /\ cc_init = NoneVal
    /\ cc_in = <<>>
    /\ cc_pc = <<>>
    /\ cc_mid = <<>>
    /\ cc_resp = <<>>

NoUploadOutcome == [kind |-> "none", error |-> ""]

UpIdle ==
    /\ u_pc = "off"
    /\ u_store = NoneVal
    /\ u_temp = "none"
    /\ u_op = FALSE
    /\ u_polls = <<0, 0>>
    /\ u_out = NoUploadOutcome
    /\ b_file = "none"
    /\ b_op = FALSE

SelInit ==
    /\ ExtIdle
    /\ ChatIdle
    /\ AdmIdle
    /\ EpIdle
    /\ CcIdle
    /\ UpIdle
    /\ apiKey \in BOOLEAN
    /\ s_pc = "idle"
    /\ s_client \in {NoneVal, Client}
    /\ s_extra \in ExtraInputs
    /\ s_outcome = NoOutcome
    /\ s_ret = <<>>
    /\ s_raised = FALSE
    /\ s_calls = 0
    /\ s_full = <<>>

\* One call of select_stores_for_query without a usable client.
SelectNoClient ==
    /\ s_pc = "idle"
    /\ ~Truthy(s_client) \/ ~apiKey
    /\ LET r == SelectStoresForQuery(s_client, apiKey, s_extra, NoOutcome)
       IN /\ s_ret' = r.ret
          /\ s_raised' = r.raised
          /\ s_calls' = r.calls
    /\ s_full' = BuildStoreList(s_extra).full_list
    /\ s_pc' = "done"
    /\ UNCHANGED <<apiKey, ccVars, upVars, epVars, admVars, s_client, s_extra, s_outcome, extVars, chatVars>>

\* One call of select_stores_for_query with a client: the remote call happens.
SelectWithClient ==
    /\ s_pc = "idle"
    /\ Truthy(s_client) /\ apiKey
    /\ \E o \in SelOutcomes :
          LET r == SelectStoresForQuery(s_client, apiKey, s_extra, o)
          IN /\ s_outcome' = o
             /\ s_ret' = r.ret
             /\ s_raised' = r.raised
             /\ s_calls' = r.calls
    /\ s_full' = BuildStoreList(s_extra).full_list
    /\ s_pc' = "done"
    /\ UNCHANGED <<apiKey, ccVars, upVars, epVars, admVars, s_client, s_extra, extVars, chatVars>>

SelNext == SelectNoClient \/ SelectWithClient

SpecSel == SelInit /\ [][SelNext]_vars

(***************************************************************************)
(* Citation extraction specification: one call of                          *)
(* _extract_sources_and_links, one loop iteration per step                 *)
(***************************************************************************)
ExtInit(mode) ==
    /\ SelIdle
    /\ ChatIdle
    /\ AdmIdle
    /\ EpIdle
    /\ CcIdle
    /\ UpIdle
    /\ apiKey = TRUE
    /\ e_mode = mode
    /\ e_pc = "start"
    /\ e_shape \in ResponseShapes
    /\ e_chunks = <<>>
    /\ e_sources = <<>>
    /\ e_links = <<>>
    /\ e_seen = {}
    /\ e_raised = FALSE

ExtAcc == [sources |-> e_sources, links |-> e_links, links_seen |-> e_seen,
           raised |-> e_raised]

\* Lines 133-138: no candidates or no grounding metadata, two empty lists.
ExtractReturnEmpty ==
    /\ e_pc = "start"
    /\ EarlyReturn(e_shape)
    /\ e_pc' = "done"
    /\ UNCHANGED <<apiKey, ccVars, upVars, epVars, admVars, selVars, chatVars, e_mode, e_shape, e_chunks, e_sources,
                   e_links, e_seen, e_raised>>

\* Lines 140-141: the chunk list is read.
ExtractEnterLoop ==
    /\ e_pc = "start"
    /\ ~EarlyReturn(e_shape)
    /\ e_pc' = "loop"
    /\ UNCHANGED <<apiKey, ccVars, upVars, epVars, admVars, selVars, chatVars, e_mode, e_shape, e_chunks, e_sources,
                   e_links, e_seen, e_raised>>

\* Lines 143-178: the iterator yields the next chunk and the body runs on it.
ExtractStep ==
    /\ e_pc = "loop"
    /\ e_shape = "chunks"
    /\ Len(e_chunks) < ChunkLimit(e_mode)
    /\ \E chunk \in ChunkPool(e_mode, e_chunks) :
          LET acc == LoopBody(ExtAcc, chunk)
          IN /\ e_chunks' = Append(e_chunks, chunk)
             /\ e_sources' = acc.sources
             /\ e_links' = acc.links
             /\ e_seen' = acc.links_seen
             /\ e_raised' = acc.raised
             /\ e_pc' = IF acc.raised THEN "done" ELSE "loop"
    /\ UNCHANGED <<apiKey, ccVars, upVars, epVars, admVars, selVars, chatVars, e_mode, e_shape>>

\* Line 180: the chunk list is exhausted, return sources, links.
ExtractReturn ==
    /\ e_pc = "loop"
    /\ e_pc' = "done"
    /\ UNCHANGED <<apiKey, ccVars, upVars, epVars, admVars, selVars, chatVars, e_mode, e_shape, e_chunks, e_sources,
                   e_links, e_seen, e_raised>>

ExtNext == ExtractReturnEmpty \/ ExtractEnterLoop \/ ExtractStep \/ ExtractReturn

SpecExt == ExtInit("keys") /\ [][ExtNext]_vars

SpecSnippet == ExtInit("content") /\ [][ExtNext]_vars

SpecMeta == ExtInit("meta") /\ [][ExtNext]_vars

(***************************************************************************)
(* Agent specification: the singleton agent is constructed, then serves    *)
(* chat calls one after the other (chat() contains no await)               *)
(***************************************************************************)

\* UniVRAgent.__init__: client = None, then _initialize().
ChatInit ==
    /\ SelIdle
    /\ ExtIdle
    /\ AdmIdle
    /\ EpIdle
    /\ CcIdle
    /\ UpIdle
    /\ apiKey \in BOOLEAN
    /\ \E initOk \in BOOLEAN : agent_client = Initialize(NoneVal, apiKey, initOk)
    /\ backend \in Backends
    /\ c_pc = "idle"
    /\ c_in = NoChatInput
    /\ c_out = NoChatOutput

\* One call of agent.chat(message, domain, store_ids, language).
ChatCall ==
    /\ c_pc = "idle"
    /\ \E m \in ChatMessages, d \in ChatDomains, ids \in ChatStoreIds,
          l \in ChatLanguages, o \in ChatOutcomes :
          \E lf \in [1..ListCalls(d, ids) -> BOOLEAN],
             ok \in IF ~Truthy(agent_client) /\ apiKey THEN BOOLEAN ELSE {FALSE} :
             LET in == ChatInput(agent_client, m, d, ids, l, ok, lf, o)
                 r == AgentChat(agent_client, apiKey, backend, in)
             IN /\ c_in' = in
                /\ agent_client' = r.client
                /\ c_out' = [raised |-> r.raised, payload |-> r.payload,
                             calls |-> r.calls]
    /\ c_pc' = "done"
    /\ UNCHANGED <<apiKey, ccVars, upVars, epVars, admVars, selVars, extVars, backend>>

\* The caller has taken the result; the agent serves the next call.
ChatNextCall ==
    /\ c_pc = "done"
    /\ c_pc' = "idle"
    /\ c_in' = NoChatInput
    /\ c_out' = NoChatOutput
    /\ UNCHANGED <<apiKey, ccVars, upVars, epVars, admVars, selVars, extVars, agent_client, backend>>

ChatNext == ChatCall \/ ChatNextCall

SpecChat == ChatInit /\ [][ChatNext]_vars

(***************************************************************************)
(* app/api/auth.py: bearer token check of the admin routes                 *)
(***************************************************************************)
ADMIN_USERNAME == "tesfayh"

\* The Authorization header as HTTPBearer(auto_error=False) hands it over:
\* None (no header, or not a Bearer one), or a token with what jwt.decode
\* finds in it: the signature, the expiry and the "sub" claim.
NoCredentials == [present |-> FALSE, sig |-> "none", expired |-> FALSE, sub |-> Absent]

Token(sig, expired, sub) ==
    [present |-> TRUE, sig |-> sig, expired |-> expired, sub |-> sub]

Credentials ==
    {NoCredentials,
     Token("bad", FALSE, ADMIN_USERNAME),
     Token("ok", TRUE, ADMIN_USERNAME),
     Token("ok", FALSE, Absent),
     Token("ok", FALSE, "mallory"),
     Token("ok", FALSE, ADMIN_USERNAME)}

\* jwt.decode(token, JWT_SECRET, algorithms=[JWT_ALGORITHM]): the signature is
\* verified before the expiry.
JwtDecode(token) ==
    IF token.sig # "ok" THEN [raised |-> "InvalidTokenError", sub |-> Absent]
    ELSE IF token.expired THEN [raised |-> "ExpiredSignatureError", sub |-> Absent]
         ELSE [raised |-> "none", sub |-> token.sub]

\* require_admin(credentials): status 401 with the detail of the HTTPException,
\* or status 200 with the username returned.
RequireAdmin(credentials) ==
    IF ~credentials.present
    THEN [status |-> 401, detail |-> "Missing or invalid authorization"]
    ELSE LET decoded == JwtDecode(credentials)
         IN IF decoded.raised = "ExpiredSignatureError"
            THEN [status |-> 401, detail |-> "Token expired"]
            ELSE IF decoded.raised = "InvalidTokenError"
                 THEN [status |-> 401, detail |-> "Invalid token"]
                 ELSE LET username == Get(decoded, "sub")
                      IN IF ~Truthy(username) \/ username # ADMIN_USERNAME
                         THEN [status |-> 401, detail |-> "Invalid token"]
                         ELSE [status |-> 200, detail |-> username]

\* The routes of app/api/admin.py that declare Depends(require_admin).
GuardedOps ==
    {"create_store", "list_stores", "delete_store", "delete_all_stores",
     "create_all_ulss9_stores", "upload_document", "delete_document"}

\* What FastAPI does before the handler of an admin route runs.
Guard(op, credentials) ==
    IF op \in GuardedOps THEN RequireAdmin(credentials)
    ELSE [status |-> 200, detail |-> NoneVal]

Unauthorized(detail) == [status |-> 401, detail |-> detail]


(***************************************************************************)
(* app/services/store_manager.py: stores of the hosted service             *)
(***************************************************************************)

\* StoreManager.__init__: a client when the key is set and genai.Client(...)
\* does not raise.
ManagerInit(key, initOk) == IF key /\ initOk THEN Client ELSE NoneVal

\* Resource names the hosted service hands out: the domain of the display
\* name and a suffix, the first one that makes the name new.
NameSuffixes == <<"-1", "-2", "-3", "-4", "-5", "-6", "-7", "-8">>

FreshStoreName(stores, domain) ==
    LET used == {stores[i].name : i \in 1..Len(stores)}
        name(k) == "fileSearchStores/" \o domain \o NameSuffixes[k]
        free == {k \in 1..Len(NameSuffixes) : name(k) \notin used}
    IN name(CHOOSE k \in free : \A j \in free : k <= j)

\* A store some other application made with the same API key: its display
\* name does not start with f"{STORE_PREFIX}-".
ForeignStore == [display_name |-> <<"univr", "docs">>, name |-> "fileSearchStores/univr-1"]

\* store.display_name.startswith(f"{STORE_PREFIX}-")
HasPrefix(displayName) == displayName[1] = STORE_PREFIX

\* _extract_domain_from_display_name(display_name)
ExtractDomain(displayName) ==
    IF HasPrefix(displayName) THEN displayName[2] ELSE NoneVal

\* get_store(domain): the first listed store with the display name of the
\* domain; a listing that raises is logged and None is returned.
ManagerGetStore(handle, stores, domain, listFails) ==
    IF ~Truthy(handle) THEN NoStore
    ELSE IF listFails THEN NoStore
         ELSE FirstStore(stores, DisplayName(domain))

\* create_store(domain, description): [raised, stores, name], stores being
\* the stores of the hosted service after the call.
ManagerCreateStore(handle, stores, domain, listFails, createFails) ==
    IF ~Truthy(handle)
    THEN [raised |-> "ValueError", stores |-> stores, name |-> NoneVal]
    ELSE LET existing == ManagerGetStore(handle, stores, domain, listFails)
         IN IF existing.found
            THEN [raised |-> "none", stores |-> stores, name |-> existing.name]
            ELSE IF createFails
                 THEN [raised |-> "Exception", stores |-> stores, name |-> NoneVal]
                 ELSE LET name == FreshStoreName(stores, domain)
                      IN [raised |-> "none",
                          stores |-> Append(stores,
                                            [display_name |-> DisplayName(domain),
                                             name |-> name]),
                          name |-> name]

\* len(list(documents.list(parent=store.name))), 0 when the listing raises.
DocCount(docs, name, countFails) ==
    IF countFails THEN 0
    ELSE Cardinality({i \in 1..Len(docs) : docs[i].parent = name})

\* The loop of list_stores over the first n listed stores.
RECURSIVE ListLoop(_, _, _, _)
ListLoop(stores, docs, n, countFailAt) ==
    IF n = 0 THEN <<>>
    ELSE LET store == stores[n]
             sofar == ListLoop(stores, docs, n - 1, countFailAt)
         IN IF HasPrefix(store.display_name)
            THEN Append(sofar,
                        [name |-> store.name,
                         display_name |-> store.display_name,
                         domain |-> Or(ExtractDomain(store.display_name), ""),
                         document_count |-> DocCount(docs, store.name, countFailAt = n)])
            ELSE sofar

\* list_stores(): failAt = k > 0 says the listing raises after k - 1 stores
\* (the stores appended so far are returned), countFailAt = k that counting the
\* documents of the k-th store raises.
ManagerListStores(handle, stores, docs, failAt, countFailAt) ==
    IF ~Truthy(handle) THEN <<>>
    ELSE ListLoop(stores, docs,
                  IF failAt = 0 THEN Len(stores) ELSE failAt - 1, countFailAt)

\* [x for x in seq if not drop(x)] for the stores and documents of the service.
RECURSIVE Without(_, _)
Without(seq, drop) ==
    IF seq = <<>> THEN <<>>
    ELSE IF Head(seq) \in drop THEN Without(Tail(seq), drop)
         ELSE <<Head(seq)>> \o Without(Tail(seq), drop)

\* delete_store(domain): [ok, stores, docs]; force deletion takes the
\* documents of the store with it.
ManagerDeleteStore(handle, stores, docs, domain, listFails, deleteFails) ==
    IF ~Truthy(handle) THEN [ok |-> FALSE, stores |-> stores, docs |-> docs]
    ELSE LET store == ManagerGetStore(handle, stores, domain, listFails)
         IN IF ~store.found THEN [ok |-> FALSE, stores |-> stores, docs |-> docs]
            ELSE IF deleteFails THEN [ok |-> FALSE, stores |-> stores, docs |-> docs]
                 ELSE [ok |-> TRUE,
                       stores |-> Without(stores, {s \in Range(stores) : s.name = store.name}),
                       docs |-> Without(docs, {d \in Range(docs) : d.parent = store.name})]


(***************************************************************************)
(* app/services/store_manager.py: documents of the hosted service          *)
(***************************************************************************)

\* A file name or a title is the sequence of its characters.
EndsWith(s, suffix) ==
    /\ Len(s) >= Len(suffix)
    /\ SubSeq(s, Len(s) - Len(suffix) + 1, Len(s)) = suffix

FreshDocName(docs, storeName) ==
    LET used == {docs[i].name : i \in 1..Len(docs)}
        name(k) == storeName \o "/documents/d" \o NameSuffixes[k]
        free == {k \in 1..Len(NameSuffixes) : name(k) \notin used}
    IN name(CHOOSE k \in free : \A j \in free : k <= j)

\* _delete_existing(store, file_name): the documents of the store whose display
\* name or file_name metadata is the file name are deleted; a listing that
\* raises is logged and nothing is deleted.
DeleteExisting(docs, storeName, fileName, listFails) ==
    IF listFails THEN docs
    ELSE Without(docs, {d \in Range(docs) :
                          /\ d.parent = storeName
                          /\ \/ d.display_name = fileName
                             \/ d.file_name = fileName})

\* upload_document(file_path, domain, source_type="attachment"):
\* [raised, docs, document_id, title]. stage says how far the hosted service
\* lets the call get: the temporary upload raises or ends in a state other
\* than ACTIVE, the metadata extraction raises, the import raises, or all
\* succeed.
ManagerUploadDocument(handle, stores, docs, fileName, domain, listFails, stage, title, existingFails) ==
    LET failed(kind, d) ==
            [raised |-> kind, docs |-> d, document_id |-> NoneVal, title |-> <<>>]
    IN IF ~Truthy(handle) THEN failed("ValueError", docs)
       ELSE LET store == ManagerGetStore(handle, stores, domain, listFails)
            IN IF ~store.found THEN failed("ValueError", docs)
               ELSE IF stage = "temp_raise" THEN failed("Exception", docs)
               ELSE IF stage = "temp_failed" THEN failed("RuntimeError", docs)
               ELSE IF stage = "meta_raise" THEN failed("Exception", docs)
               ELSE LET kept == DeleteExisting(docs, store.name, fileName, existingFails)
                    IN IF stage = "import_raise" THEN failed("Exception", kept)
                       ELSE LET name == FreshDocName(kept, store.name)
                            IN [raised |-> "none",
                                docs |-> Append(kept, [parent |-> store.name,
                                                       name |-> name,
                                                       display_name |-> title,
                                                       file_name |-> fileName]),
                                document_id |-> name,
                                title |-> title]

\* The loop of list_documents over the first n documents listed for the store.
RECURSIVE DocLoop(_, _)
DocLoop(docs, n) ==
    IF n = 0 THEN <<>>
    ELSE Append(DocLoop(docs, n - 1),
                [name |-> docs[n].name, display_name |-> docs[n].display_name,
                 metadata |-> [file_name |-> docs[n].file_name]])

\* list_documents(domain): a listing that raises after some documents returns
\* the documents appended so far (failAt as in ManagerListStores).
ManagerListDocuments(handle, stores, docs, domain, listFails, failAt) ==
    IF ~Truthy(handle) THEN <<>>
    ELSE LET store == ManagerGetStore(handle, stores, domain, listFails)
         IN IF ~store.found THEN <<>>
            ELSE LET mine == SelectSeq(docs, LAMBDA d : d.parent = store.name)
                 IN DocLoop(mine, IF failAt = 0 \/ failAt > Len(mine)
                                  THEN Len(mine) ELSE failAt - 1)

\* delete_document(domain, doc_name): [ok, docs]. documents.delete raises for
\* a name the service does not know, and when deleteFails.
ManagerDeleteDocument(handle, stores, docs, domain, docName, listFails, deleteFails) ==
    IF ~Truthy(handle) THEN [ok |-> FALSE, docs |-> docs]
    ELSE LET store == ManagerGetStore(handle, stores, domain, listFails)
         IN IF ~store.found THEN [ok |-> FALSE, docs |-> docs]
            ELSE IF deleteFails \/ docName \notin {d.name : d \in Range(docs)}
                 THEN [ok |-> FALSE, docs |-> docs]
                 ELSE [ok |-> TRUE,
                       docs |-> Without(docs, {d \in Range(docs) : d.name = docName})]

(***************************************************************************)
(* app/services/extra_stores.py: saved descriptions of the extra stores    *)
(***************************************************************************)
INITIAL_IDS == {ULSS9_STORES[i].id : i \in 1..Len(ULSS9_STORES)}

\* get_extra_description(domain): _load_descriptions().get(domain)
GetExtraDescription(saved, domain) ==
    IF domain \in DOMAIN saved THEN saved[domain] ELSE NoneVal

\* Mutant: the description of an initial store is saved like any other.
SetExtraDescriptionNoGuard(saved, domain, description) ==
    [d \in DOMAIN saved \cup {domain} |->
        IF d = domain THEN description ELSE saved[d]]

\* set_extra_description(domain, description): the mapping saved afterwards.
SetExtraDescription(saved, domain, description) ==
    IF domain \in INITIAL_IDS THEN saved
    ELSE [d \in DOMAIN saved \cup {domain} |->
             IF d = domain THEN description ELSE saved[d]]


(***************************************************************************)
(* app/api/admin.py: the handlers. Each gives the response and the stores, *)
(* documents, local files and saved descriptions after the request;        *)
(* svc = [stores, docs, files, saved] is what they were before it.         *)
(***************************************************************************)
Outcome(resp, stores, docs, files, saved) ==
    [resp |-> resp, stores |-> stores, docs |-> docs, files |-> files, saved |-> saved]

\* A response that leaves everything as it was.
Plain(resp, svc) == Outcome(resp, svc.stores, svc.docs, svc.files, svc.saved)

ServerError(detail) == [status |-> 500, detail |-> detail]

\* create_store(request): POST /stores
HandleCreateStore(svc, handle, domain, description, listFails, createFails) ==
    LET r == ManagerCreateStore(handle, svc.stores, domain, listFails, createFails)
    IN IF r.raised # "none" THEN Plain(ServerError(r.raised), svc)
       ELSE Outcome([status |-> 200, success |-> TRUE, domain |-> domain,
                     store_name |-> r.name],
                    r.stores, svc.docs, svc.files,
                    IF Truthy(description)
                    THEN SetExtraDescription(svc.saved, domain, description)
                    ELSE svc.saved)

\* list_stores(): GET /stores
HandleListStores(svc, handle, failAt, countFailAt) ==
    Plain([status |-> 200,
           body |-> ManagerListStores(handle, svc.stores, svc.docs, failAt, countFailAt)],
          svc)

\* Mutant: delete_store answers with the success payload whatever the store
\* manager returned.
HandleDeleteStoreAlwaysOk(svc, handle, domain, listFails, deleteFails) ==
    LET r == ManagerDeleteStore(handle, svc.stores, svc.docs, domain, listFails, deleteFails)
    IN Outcome([status |-> 200, success |-> TRUE], r.stores, r.docs, svc.files, svc.saved)

\* delete_store(domain): DELETE /stores/{domain}
HandleDeleteStore(svc, handle, domain, listFails, deleteFails) ==
    LET r == ManagerDeleteStore(handle, svc.stores, svc.docs, domain, listFails, deleteFails)
    IN IF ~r.ok THEN Plain([status |-> 404, detail |-> "Store not found"], svc)
       ELSE Outcome([status |-> 200, success |-> TRUE],
                    r.stores, r.docs, svc.files, svc.saved)

\* The loop of delete_all_stores from the i-th listed store on,
\* acc = [stores, docs, deleted]; the get_store listing of the listFailAt-th
\* iteration raises, the delete call of the deleteFailAt-th one.
RECURSIVE DeleteAllLoop(_, _, _, _, _, _)
DeleteAllLoop(acc, handle, listed, i, listFailAt, deleteFailAt) ==
    IF i > Len(listed) THEN acc
    ELSE LET r == ManagerDeleteStore(handle, acc.stores, acc.docs, listed[i].domain,
                                     listFailAt = i, deleteFailAt = i)
         IN DeleteAllLoop([stores |-> r.stores, docs |-> r.docs,
                           deleted |-> IF r.ok THEN Append(acc.deleted, listed[i].domain)
                                       ELSE acc.deleted],
                          handle, listed, i + 1, listFailAt, deleteFailAt)

\* delete_all_stores(): POST /stores/delete-all
HandleDeleteAll(svc, handle, failAt, listFailAt, deleteFailAt) ==
    LET listed == ManagerListStores(handle, svc.stores, svc.docs, failAt, 0)
        r == DeleteAllLoop([stores |-> svc.stores, docs |-> svc.docs, deleted |-> <<>>],
                           handle, listed, 1, listFailAt, deleteFailAt)
    IN Outcome([status |-> 200, success |-> TRUE, deleted |-> r.deleted],
               r.stores, r.docs, svc.files, svc.saved)

\* The loop of create_all_ulss9_stores from the i-th initial store on,
\* acc = [raised, stores, created].
RECURSIVE CreateAllLoop(_, _, _, _, _)
CreateAllLoop(acc, handle, i, listFailAt, createFailAt) ==
    IF i > Len(ULSS9_STORES) THEN acc
    ELSE LET domain == ULSS9_STORES[i].id
             r == ManagerCreateStore(handle, acc.stores, domain,
                                     listFailAt = i, createFailAt = i)
         IN IF r.raised # "none"
            THEN [raised |-> r.raised, stores |-> r.stores, created |-> acc.created]
            ELSE CreateAllLoop([raised |-> "none", stores |-> r.stores,
                                created |-> Append(acc.created,
                                                   [domain |-> domain,
                                                    store_name |-> r.name])],
                               handle, i + 1, listFailAt, createFailAt)

\* create_all_ulss9_stores(): POST /stores/ulss9/create-all
HandleCreateAll(svc, handle, listFailAt, createFailAt) ==
    LET r == CreateAllLoop([raised |-> "none", stores |-> svc.stores, created |-> <<>>],
                           handle, 1, listFailAt, createFailAt)
    IN IF r.raised # "none"
       THEN Outcome(ServerError(r.raised), r.stores, svc.docs, svc.files, svc.saved)
       ELSE Outcome([status |-> 200, success |-> TRUE, stores |-> r.created],
                    r.stores, svc.docs, svc.files, svc.saved)


Suffixes ==
    {<<".", "p", "d", "f">>, <<".", "m", "d">>, <<".", "t", "x", "t">>,
     <<".", "d", "o", "c", "x">>}

\* file.filename.endswith((".pdf", ".md", ".txt", ".docx"))
SupportedFile(fileName) == \E suffix \in Suffixes : EndsWith(fileName, suffix)

\* Mutant: the file type is not validated.
HandleUploadNoValidation(svc, handle, domain, fileName, listFails, stage, title, existingFails) ==
    LET files == svc.files \cup {fileName}
        r == ManagerUploadDocument(handle, svc.stores, svc.docs, fileName, domain,
                                   listFails, stage, title, existingFails)
    IN IF r.raised = "ValueError"
       THEN Outcome([status |-> 404, detail |-> "ValueError"],
                    svc.stores, r.docs, files, svc.saved)
       ELSE IF r.raised # "none"
            THEN Outcome(ServerError(r.raised), svc.stores, r.docs, files, svc.saved)
            ELSE Outcome([status |-> 200, success |-> TRUE, filename |-> fileName,
                          domain |-> domain, document_id |-> r.document_id,
                          title |-> r.title],
                         svc.stores, r.docs, files, svc.saved)

\* upload_document(domain, file): POST /stores/{domain}/upload
HandleUpload(svc, handle, domain, fileName, listFails, stage, title, existingFails) ==
    IF ~SupportedFile(fileName)
    THEN Plain([status |-> 400,
                detail |-> "Only PDF, Markdown, TXT, and DOCX files are supported"], svc)
    ELSE LET files == svc.files \cup {fileName}
             r == ManagerUploadDocument(handle, svc.stores, svc.docs, fileName, domain,
                                        listFails, stage, title, existingFails)
         IN IF r.raised = "ValueError"
            THEN Outcome([status |-> 404, detail |-> "ValueError"],
                         svc.stores, r.docs, files, svc.saved)
            ELSE IF r.raised # "none"
                 THEN Outcome(ServerError(r.raised), svc.stores, r.docs, files, svc.saved)
                 ELSE Outcome([status |-> 200, success |-> TRUE, filename |-> fileName,
                               domain |-> domain, document_id |-> r.document_id,
                               title |-> r.title],
                              svc.stores, r.docs, files, svc.saved)

\* list_documents(domain): GET /stores/{domain}/documents
HandleListDocuments(svc, handle, domain, listFails, failAt) ==
    Plain([status |-> 200,
           body |-> ManagerListDocuments(handle, svc.stores, svc.docs, domain,
                                         listFails, failAt)],
          svc)

\* delete_document(domain, doc_name): DELETE /stores/{domain}/documents/{doc_name}
HandleDeleteDocument(svc, handle, domain, docName, listFails, deleteFails) ==
    LET r == ManagerDeleteDocument(handle, svc.stores, svc.docs, domain, docName,
                                   listFails, deleteFails)
    IN IF ~r.ok THEN Plain([status |-> 404, detail |-> "Document not found"], svc)
       ELSE Outcome([status |-> 200, success |-> TRUE],
                    svc.stores, r.docs, svc.files, svc.saved)

(***************************************************************************)
(* app/api/chat.py: GET /domains                                           *)
(***************************************************************************)

\* by_domain.get(sid): the last listed store of the domain (a later dict entry
\* replaces an earlier one), None when there is none.
ByDomain(existing, sid) ==
    LET hits == {i \in 1..Len(existing) : existing[i].domain = sid}
    IN IF hits = {} THEN 0 ELSE CHOOSE i \in hits : \A j \in hits : j <= i

\* DomainInfo of one initial store.
InitialInfo(existing, sid) ==
    LET k == ByDomain(existing, sid)
    IN [domain |-> sid, display_name |-> <<"ulss9", sid>>,
        document_count |-> IF k = 0 THEN 0 ELSE existing[k].document_count]

\* The second loop of get_domains: the listed stores that are not initial.
ExtraInfos(existing) ==
    LET extra == SelectSeq(existing, LAMBDA s : s.domain \notin INITIAL_IDS)
    IN [i \in 1..Len(extra) |->
           [domain |-> extra[i].domain,
            display_name |-> extra[i].display_name,
            document_count |-> extra[i].document_count]]

\* get_domains(): the response body.
GetDomains(existing) ==
    [i \in 1..Len(ULSS9_STORES) |-> InitialInfo(existing, ULSS9_STORES[i].id)]
    \o ExtraInfos(existing)



(***************************************************************************)
(* Inputs of the admin API                                                 *)
(***************************************************************************)
CreateDomains == {"docs", "general_info"}
CreateDescriptions == {"", "desc_docs"}
DeleteDomains == {"docs"}
UploadDomains == {"docs", "hours"}

FileNames ==
    {<<"a", ".", "p", "d", "f">>, <<"d", ".", "d", "o", "c", "x">>,
     <<"b", ".", "c", "s", "v">>, <<"a", ".", "P", "D", "F">>,
     <<"p", "d", "f">>, <<"a", ".", "p", "d", "f", ".", "b", "a", "k">>}

\* Titles the metadata extraction may come up with.
Titles == {<<"T">>}

UploadStages == {"ok", "temp_raise", "temp_failed", "meta_raise", "import_raise"}

\* Document names a client may ask to delete: those listed and an unknown one.
DocNameInputs(docs) == {docs[i].name : i \in 1..Len(docs)} \cup {"documents/none"}

\* genai.Client(...) can only raise when there is a key to give it.
InitOutcomes(key) == IF key THEN BOOLEAN ELSE {FALSE}

\* Where a listing of n items may raise: nowhere (0), or before its last item.
FailPoints(n) == IF n = 0 THEN {0} ELSE {0, n}

(***************************************************************************)
(* Admin API specification: one request per step, then the next one        *)
(***************************************************************************)
Svc == [stores |-> backend, docs |-> documents, files |-> uploads, saved |-> descriptions]

\* store_descriptions.json as a process finds it when it starts: absent, or
\* written by an earlier process that created the category "events".
SavedDescriptions == {NoDescriptions, "events" :> "desc_events"}

\* The process is up, no request was made; the hosted service holds no store
\* of this application yet.
AdminInit ==
    /\ SelIdle
    /\ ExtIdle
    /\ EpIdle
    /\ CcIdle
    /\ UpIdle
    /\ agent_client = NoneVal
    /\ c_pc = "off"
    /\ c_in = NoChatInput
    /\ c_out = NoChatOutput
    /\ apiKey \in BOOLEAN
    /\ backend = <<>>
    /\ documents = <<>>
    /\ uploads = {}
    /\ descriptions \in SavedDescriptions
    /\ a_req = NoAdminRequest
    /\ a_resp = NoAdminResponse

\* The request req was answered as out says.
Respond(req, out) ==
    /\ a_req' = req
    /\ a_resp' = out.resp
    /\ backend' = out.stores
    /\ documents' = out.docs
    /\ uploads' = out.files
    /\ descriptions' = out.saved
    /\ UNCHANGED <<apiKey, ccVars, upVars, epVars, selVars, extVars, agent_client, c_pc, c_in, c_out>>

\* FastAPI answers for the dependency: the handler does not run.
Refuse(op, credentials) ==
    /\ Guard(op, credentials).status # 200
    /\ Respond([op |-> op, credentials |-> credentials],
               Plain(Guard(op, credentials), Svc))

AdminCreateStore ==
    /\ a_req.op = "none"
    /\ \E credentials \in Credentials :
          \/ Refuse("create_store", credentials)
          \/ /\ Guard("create_store", credentials).status = 200
             /\ \E domain \in CreateDomains, description \in CreateDescriptions,
                   initOk \in InitOutcomes(apiKey), listFails, createFails \in BOOLEAN :
                   LET out == HandleCreateStore(Svc, ManagerInit(apiKey, initOk), domain,
                                                description, listFails, createFails)
                   IN /\ Len(out.stores) <= MaxStores
                      /\ Respond([op |-> "create_store", credentials |-> credentials,
                                  domain |-> domain, description |-> description], out)

AdminListStores ==
    /\ a_req.op = "none"
    /\ \E credentials \in Credentials :
          \/ Refuse("list_stores", credentials)
          \/ /\ Guard("list_stores", credentials).status = 200
             /\ \E initOk \in InitOutcomes(apiKey), failAt \in FailPoints(Len(backend)),
                   countFailAt \in FailPoints(Len(backend)) :
                   Respond([op |-> "list_stores", credentials |-> credentials],
                           HandleListStores(Svc, ManagerInit(apiKey, initOk),
                                            failAt, countFailAt))

AdminDeleteStore ==
    /\ a_req.op = "none"
    /\ \E credentials \in Credentials :
          \/ Refuse("delete_store", credentials)
          \/ /\ Guard("delete_store", credentials).status = 200
             /\ \E domain \in DeleteDomains, initOk \in InitOutcomes(apiKey),
                   listFails, deleteFails \in BOOLEAN :
                   Respond([op |-> "delete_store", credentials |-> credentials,
                            domain |-> domain],
                           HandleDeleteStore(Svc, ManagerInit(apiKey, initOk), domain,
                                             listFails, deleteFails))

AdminDeleteAll ==
    /\ a_req.op = "none"
    /\ \E credentials \in Credentials :
          \/ Refuse("delete_all_stores", credentials)
          \/ /\ Guard("delete_all_stores", credentials).status = 200
             /\ \E initOk \in InitOutcomes(apiKey), failAt \in FailPoints(Len(backend)),
                   listFailAt, deleteFailAt \in {0, 1} :
                   Respond([op |-> "delete_all_stores", credentials |-> credentials],
                           HandleDeleteAll(Svc, ManagerInit(apiKey, initOk), failAt,
                                           listFailAt, deleteFailAt))

AdminCreateAll ==
    /\ a_req.op = "none"
    /\ \E credentials \in Credentials :
          \/ Refuse("create_all_ulss9_stores", credentials)
          \/ /\ Guard("create_all_ulss9_stores", credentials).status = 200
             /\ \E initOk \in InitOutcomes(apiKey),
                   listFailAt \in {0, 2}, createFailAt \in {0, 3} :
                   LET out == HandleCreateAll(Svc, ManagerInit(apiKey, initOk),
                                              listFailAt, createFailAt)
                   IN /\ Len(out.stores) <= MaxStores
                      /\ Respond([op |-> "create_all_ulss9_stores",
                                  credentials |-> credentials], out)


AdminUpload ==
    /\ a_req.op = "none"
    /\ \E credentials \in Credentials :
          \/ /\ Guard("upload_document", credentials).status # 200
             /\ \E domain \in UploadDomains, fileName \in FileNames :
                   Respond([op |-> "upload_document", credentials |-> credentials,
                            domain |-> domain, fileName |-> fileName],
                           Plain(Guard("upload_document", credentials), Svc))
          \/ /\ Guard("upload_document", credentials).status = 200
             /\ \E domain \in UploadDomains, fileName \in FileNames,
                   initOk \in InitOutcomes(apiKey), listFails, existingFails \in BOOLEAN,
                   stage \in UploadStages, title \in Titles :
                   LET out == HandleUpload(Svc, ManagerInit(apiKey, initOk), domain,
                                           fileName, listFails, stage, title,
                                           existingFails)
                   IN /\ Len(out.docs) <= MaxDocs
                      /\ Respond([op |-> "upload_document", credentials |-> credentials,
                                  domain |-> domain, fileName |-> fileName], out)

AdminListDocuments ==
    /\ a_req.op = "none"
    /\ \E credentials \in Credentials :
          \/ Refuse("list_documents", credentials)
          \/ /\ Guard("list_documents", credentials).status = 200
             /\ \E domain \in UploadDomains, initOk \in InitOutcomes(apiKey),
                   listFails \in BOOLEAN, failAt \in FailPoints(Len(documents)) :
                   Respond([op |-> "list_documents", credentials |-> credentials,
                            domain |-> domain],
                           HandleListDocuments(Svc, ManagerInit(apiKey, initOk), domain,
                                               listFails, failAt))

AdminDeleteDocument ==
    /\ a_req.op = "none"
    /\ \E credentials \in Credentials :
          \/ Refuse("delete_document", credentials)
          \/ /\ Guard("delete_document", credentials).status = 200
             /\ \E domain \in UploadDomains, docName \in DocNameInputs(documents),
                   initOk \in InitOutcomes(apiKey), listFails, deleteFails \in BOOLEAN :
                   Respond([op |-> "delete_document", credentials |-> credentials,
                            domain |-> domain, docName |-> docName],
                           HandleDeleteDocument(Svc, ManagerInit(apiKey, initOk), domain,
                                                docName, listFails, deleteFails))

\* GET /domains: no credentials are asked for.
DomainsRequest ==
    /\ a_req.op = "none"
    /\ \E initOk \in InitOutcomes(apiKey), failAt \in FailPoints(Len(backend)),
          countFailAt \in FailPoints(Len(backend)) :
          LET existing == ManagerListStores(ManagerInit(apiKey, initOk), backend,
                                            documents, failAt, countFailAt)
          IN Respond([op |-> "get_domains"],
                     Plain([status |-> 200, body |-> GetDomains(existing)], Svc))

\* The response is out; the next request can be taken.
AdminNextRequest ==
    /\ a_req.op # "none"
    /\ a_req' = NoAdminRequest
    /\ a_resp' = NoAdminResponse
    /\ UNCHANGED <<apiKey, ccVars, upVars, epVars, selVars, extVars, chatVars, documents, uploads, descriptions>>

\* The requests that manage the stores.
AdminNext ==
    \/ AdminCreateStore
    \/ AdminListStores
    \/ AdminDeleteStore
    \/ AdminDeleteAll
    \/ AdminCreateAll
    \/ DomainsRequest
    \/ AdminNextRequest

SpecAdmin == AdminInit /\ [][AdminNext]_vars

(***************************************************************************)
(* Document specification: the stores "hours" and "docs" were created, the *)
(* requests are those on documents, and stores can be deleted              *)
(***************************************************************************)
DocsBackend ==
    <<ForeignStore,
      [display_name |-> DisplayName("hours"), name |-> "fileSearchStores/hours-1"],
      [display_name |-> DisplayName("docs"), name |-> "fileSearchStores/docs-1"]>>

DocsInit ==
    /\ SelIdle
    /\ ExtIdle
    /\ EpIdle
    /\ CcIdle
    /\ UpIdle
    /\ agent_client = NoneVal
    /\ c_pc = "off"
    /\ c_in = NoChatInput
    /\ c_out = NoChatOutput
    /\ apiKey \in BOOLEAN
    /\ backend = DocsBackend
    /\ AdmIdle

DocsNext ==
    \/ AdminUpload
    \/ AdminListDocuments
    \/ AdminDeleteDocument
    \/ AdminDeleteStore
    \/ DomainsRequest
    \/ AdminNextRequest

SpecDocs == DocsInit /\ [][DocsNext]_vars


(***************************************************************************)
(* app/api/chat.py: POST /chat                                             *)
(***************************************************************************)
\* An Optional[str] of the request whose characters matter: language.
NoText == [isNone |-> TRUE, chars |-> <<>>]
Text(chars) == [isNone |-> FALSE, chars |-> chars]

\* str.lower() on the letters of the language values of the model.
LowerChar(c) ==
    CASE c = "E" -> "e"
      [] c = "N" -> "n"
      [] c = "I" -> "i"
      [] c = "T" -> "t"
      [] c = "F" -> "f"
      [] c = "R" -> "r"
      [] OTHER -> c

\* str.strip(): leading and trailing blanks are removed.
RECURSIVE LStrip(_)
LStrip(s) == IF s # <<>> /\ Head(s) = " " THEN LStrip(Tail(s)) ELSE s

RECURSIVE RStrip(_)
RStrip(s) ==
    IF s # <<>> /\ s[Len(s)] = " " THEN RStrip(SubSeq(s, 1, Len(s) - 1)) ELSE s

\* Mutant: English is served whether or not it is allowed.
NormalizeLanguageAlwaysAllowed(language, allow) ==
    LET raw == IF language.isNone \/ language.chars = <<>>
               THEN <<"i", "t">> ELSE language.chars
        stripped == RStrip(LStrip(raw))
        lang == [i \in 1..Len(stripped) |-> LowerChar(stripped[i])]
    IN IF lang = <<"e", "n">> THEN "en" ELSE "it"

\* lang of the handler: (request.language or "it").strip().lower(), "it" when
\* it is neither "en" nor "it", and "it" when English is not allowed.
NormalizeLanguage(language, allow) ==
    LET raw == IF language.isNone \/ language.chars = <<>>
               THEN <<"i", "t">> ELSE language.chars
        stripped == RStrip(LStrip(raw))
        lang == [i \in 1..Len(stripped) |-> LowerChar(stripped[i])]
        known == IF lang = <<"e", "n">> THEN "en" ELSE "it"
    IN IF ~allow THEN "it" ELSE known

\* Mutant: an empty domain is taken as a domain.
UsesDomainNotNone(req) == req.domain # NoneVal

\* `if request.domain:`
UsesDomain(req) == Truthy(req.domain)

\* store.display_name as the text it is.
NameText(displayName) == displayName[1] \o "-" \o displayName[2]

\* extra_stores of the handler: one dict for every listed store whose domain is
\* not an initial id.
EndpointExtraStores(existing, saved) ==
    LET extra == SelectSeq(existing, LAMBDA s : s.domain \notin INITIAL_IDS)
    IN [i \in 1..Len(extra) |->
           [id |-> extra[i].domain,
            domain |-> Absent,
            description |-> Or(GetExtraDescription(saved, extra[i].domain),
                               Or(NameText(extra[i].display_name), extra[i].domain)),
            display_name |-> Absent]]

\* One call of the handler, as the trace keeps it.
HandlerCall(fn, client, extra, domain, store_ids, language, ret) ==
    [fn |-> fn, client |-> client, extra |-> extra, domain |-> domain,
     store_ids |-> store_ids, language |-> language, ret |-> ret]

NoIds == [isNone |-> TRUE, items |-> <<>>]
Ids(items) == [isNone |-> FALSE, items |-> items]

\* One request to the hosted model: the message, the file search tools, the
\* system instruction, the categories offered to a classification and the
\* answer a follow-up request quotes.
ModelRequest(op, message, tools, instruction, registry, answer) ==
    [op |-> op, message |-> message, tools |-> tools, instruction |-> instruction,
     registry |-> registry, answer |-> answer]

\* The requests of agent.chat to the hosted model: chats.create and
\* send_message (the listings of the stores go to the store service).
ChatRequests(calls) ==
    LET sent == SelectSeq(calls, LAMBDA c : c.op # "file_search_stores.list")
    IN [i \in 1..Len(sent) |->
           ModelRequest(sent[i].op, sent[i].message, sent[i].tools,
                        sent[i].instruction, <<>>, <<>>)]

\* The classification request of select_stores_for_query.
ClassifyRequest(message, extra) ==
    LET full == BuildStoreList(extra).full_list
    IN ModelRequest("models.generate_content:select", message, <<>>, <<>>,
                    [i \in 1..Len(full) |->
                        [id |-> full[i].id, description |-> full[i].description]],
                    <<>>)

\* generate_follow_up_suggestions(user_message, bot_response, language):
\* [questions, requests]. The answers of the model are shorter than the 1500
\* characters quoted; a line is a question when it has more than 5 characters.
FollowUp(client, message, answer, lang, outcome) ==
    IF ~Truthy(client) THEN [questions |-> <<>>, requests |-> <<>>]
    ELSE LET request == ModelRequest("models.generate_content:follow_up", message,
                                     <<>>, <<lang>>, <<>>, answer)
             kept == SelectSeq(outcome.lines, LAMBDA q : Len(q) > 5)
         IN [questions |-> IF outcome.raises THEN <<>>
                           ELSE SubSeq(kept, 1, IF Len(kept) < 3 THEN Len(kept) ELSE 3),
             requests |-> <<request>>]

\* `extra_stores if extra_stores else None`, for the stores listed.
EndpointExtraArg(existing, saved) ==
    LET extra == EndpointExtraStores(existing, saved)
    IN IF extra # <<>> THEN Ids(extra) ELSE NoIds

\* The selector is called in the else branch of `if request.domain:` only.
NotSelected == [raised |-> FALSE, ret |-> <<>>, calls |-> 0]

EndpointSelect(req, client, key, extraArg, outcome) ==
    IF UsesDomain(req) THEN NotSelected
    ELSE SelectStoresForQuery(client, key, extraArg, outcome)

\* The arguments domain and store_ids of agent.chat in the two branches.
EndpointDomain(req) == IF UsesDomain(req) THEN req.domain ELSE NoneVal

EndpointStoreIds(req, sel) == IF UsesDomain(req) THEN NoIds ELSE Ids(sel.ret)

\* The call of agent.chat: [client, raised, payload, calls].
EndpointChat(req, client, key, stores, env, lang, sel) ==
    AgentChat(client, key, stores,
              ChatInput(client, req.message, EndpointDomain(req),
                        EndpointStoreIds(req, sel), lang, env.initOk,
                        [i \in 1..ListCalls(EndpointDomain(req),
                                            EndpointStoreIds(req, sel)) |->
                            i = 1 /\ env.listFails],
                        env.chat))

\* The ChatResponse and what the handler did: [client, resp, trace, remote],
\* given what the selector (sel), agent.chat (result) and the follow-up
\* (follow) returned.
EndpointResponse(req, client, lang, extraArg, sel, result, follow) ==
    [client |-> result.client,
     resp |-> [status |-> 200,
               body |-> [response |-> result.payload.response,
                         sources |-> result.payload.sources,
                         links |-> result.payload.links,
                         stores_used |-> result.payload.stores_used,
                         domain |-> req.domain,
                         suggested_questions |-> follow.questions]],
     trace |-> (IF UsesDomain(req) THEN <<>>
                ELSE <<HandlerCall("StoreManager.list_stores", NoneVal, NoIds,
                                   NoneVal, NoIds, "", <<>>),
                       HandlerCall("select_stores_for_query", client, extraArg,
                                   NoneVal, NoIds, "", sel.ret)>>)
               \o <<HandlerCall("agent.chat", client, NoIds, EndpointDomain(req),
                                EndpointStoreIds(req, sel), lang,
                                result.payload.stores_used)>>
               \o (IF Truthy(result.client)
                   THEN <<HandlerCall("agent.generate_follow_up_suggestions",
                                      result.client, NoIds, NoneVal, NoIds, lang,
                                      follow.questions)>>
                   ELSE <<>>),
     remote |-> [i \in 1..sel.calls |-> ClassifyRequest(req.message, extraArg)]
                \o ChatRequests(result.calls) \o follow.requests]

(***************************************************************************)
(* Chat endpoint specification: requests to POST /chat, one at a time; a   *)
(* request may repeat the one before it with another conversation_id, the  *)
(* service answering as it did before                                      *)
(***************************************************************************)
EpBackend ==
    <<[display_name |-> DisplayName("hours"), name |-> "fileSearchStores/hours-1"],
      [display_name |-> DisplayName("docs"), name |-> "fileSearchStores/docs-1"]>>

EpDescriptions == {NoDescriptions, "docs" :> "desc_docs"}

EpMessages == {"m1"}
EpDomains == {NoneVal, "", "hours"}
EpLanguages ==
    {NoText, Text(<<>>), Text(<<"e", "n">>), Text(<<" ", "E", "N", " ">>),
     Text(<<"i", "t">>), Text(<<"f", "r">>), Text(<<"e", "n", "g">>)}
EpConversations == {NoneVal, "c1"}

\* What the classification answers.
EpSelections ==
    {[kind |-> "raise", stores |-> <<>>],
     [kind |-> "ok", stores |-> <<"hours">>],
     [kind |-> "ok", stores |-> <<"bogus", "docs", "hours">>]}

\* What chats.create and send_message do.
EpChats ==
    {[create |-> "raise", send |-> "nocall", response |-> NoResponse, text |-> <<>>],
     [create |-> "ok", send |-> "raise", response |-> NoResponse, text |-> <<>>],
     [create |-> "ok", send |-> "ok", response |-> [shape |-> "no_gm", chunks |-> <<>>],
      text |-> <<"answer">>]}

\* What the follow-up request answers.
EpFollowUps ==
    {[raises |-> TRUE, lines |-> <<>>],
     [raises |-> FALSE,
      lines |-> <<"Quali sono gli orari?", "ok", "Dove si trova?", "Come prenoto?",
                  "Serve la ricetta?">>]}

\* What the service does during the request req to the agent holding handle;
\* the stores are listed and classified only for a request without a domain.
EpEnvs(handle, req) ==
    [managerOk : IF UsesDomain(req) THEN {FALSE} ELSE InitOutcomes(apiKey),
     failAt : IF UsesDomain(req) THEN {0} ELSE FailPoints(Len(backend)),
     select : IF UsesDomain(req) THEN {[kind |-> "raise", stores |-> <<>>]}
              ELSE EpSelections,
     initOk : IF ~Truthy(handle) /\ apiKey THEN BOOLEAN ELSE {FALSE},
     listFails : BOOLEAN,
     chat : EpChats,
     follow : EpFollowUps]

EpInit ==
    /\ SelIdle
    /\ ExtIdle
    /\ CcIdle
    /\ UpIdle
    /\ apiKey \in BOOLEAN
    /\ \E initOk \in BOOLEAN : agent_client = Initialize(NoneVal, apiKey, initOk)
    /\ c_pc = "off"
    /\ c_in = NoChatInput
    /\ c_out = NoChatOutput
    /\ backend = EpBackend
    /\ documents = <<>>
    /\ uploads = {}
    /\ descriptions \in EpDescriptions
    /\ a_req = NoAdminRequest
    /\ a_resp = NoAdminResponse
    /\ allowEnglish \in BOOLEAN
    /\ ep_req = NoChatRequest
    /\ ep_resp = NoChatResponse
    /\ ep_trace = <<>>
    /\ ep_remote = <<>>
    /\ ep_prev = NoPrevious

\* The handler of POST /chat ran for req, env saying what genai.Client(...),
\* the store service and the hosted model did during the request: the
\* language, the listing of the stores, the selector, agent.chat, the
\* follow-up suggestions and the response, in this order.
Serve(req, env, prev) ==
    \E lang \in {NormalizeLanguage(req.language, allowEnglish)},
       existing \in {ManagerListStores(ManagerInit(apiKey, env.managerOk), backend,
                                       documents, env.failAt, 0)} :
       \E extraArg \in {EndpointExtraArg(existing, descriptions)} :
          \E sel \in {EndpointSelect(req, agent_client, apiKey, extraArg, env.select)} :
             \E result \in {EndpointChat(req, agent_client, apiKey, backend, env, lang,
                                         sel)} :
                \E follow \in {FollowUp(result.client, req.message,
                                        result.payload.response, lang, env.follow)} :
                   \E out \in {EndpointResponse(req, agent_client, lang, extraArg, sel,
                                                result, follow)} :
                      /\ ep_req' = [op |-> "chat", request |-> req, env |-> env]
                      /\ ep_resp' = out.resp
                      /\ ep_trace' = out.trace
                      /\ ep_remote' = out.remote
                      /\ ep_prev' = prev
                      /\ agent_client' = out.client
                      /\ UNCHANGED <<apiKey, ccVars, upVars, allowEnglish, selVars, extVars, admVars,
                                     backend, c_pc, c_in, c_out>>

\* A request to POST /chat.
ChatPost ==
    /\ ep_req.op = "none"
    /\ \E m \in EpMessages, d \in EpDomains, l \in EpLanguages, c \in EpConversations :
          LET req == [message |-> m, domain |-> d, language |-> l,
                      conversation_id |-> c]
          IN \E env \in EpEnvs(agent_client, req) : Serve(req, env, NoPrevious)

\* The request just answered is sent again, with any conversation_id.
ChatRepost ==
    /\ ep_req.op = "chat"
    /\ \E c \in EpConversations :
          Serve([ep_req.request EXCEPT !.conversation_id = c], ep_req.env,
                [repeated |-> TRUE, remote |-> ep_remote])

\* The response is out; the next request can be taken.
ChatNextRequest ==
    /\ ep_req.op = "chat"
    /\ ep_req' = NoChatRequest
    /\ ep_resp' = NoChatResponse
    /\ ep_trace' = <<>>
    /\ ep_remote' = <<>>
    /\ ep_prev' = NoPrevious
    /\ UNCHANGED <<apiKey, ccVars, upVars, allowEnglish, selVars, extVars, chatVars, admVars>>

EpNext == ChatPost \/ ChatRepost \/ ChatNextRequest

SpecEndpoint == EpInit /\ [][EpNext]_vars



(***************************************************************************)
(* StoreManager.upload_document step by step: the two loops that wait for  *)
(* the hosted service, which works on the temporary file and on the        *)
(* indexing operation at its own pace                                      *)
(***************************************************************************)
UploadFile == <<"a", ".", "p", "d", "f">>

FileLoop == {"file_loop", "file_get"}
OperationLoop == {"op_loop", "op_get"}
UploadEnded == {"raised", "returned"}

\* Mutant: the loop waits until the file is ACTIVE.
FileNotReadyUntilActive(state) == state # "ACTIVE"

\* `while temp_file.state.name == "PROCESSING":`
FileNotReady(state) == state = "PROCESSING"

\* `while not operation.done:`
OperationNotDone(done) == ~done

\* One more poll; the count stops at MaxPolls, the loop does not.
Polled(n) == IF n < MaxPolls THEN n + 1 ELSE n

UpFrame == UNCHANGED <<apiKey, selVars, extVars, chatVars, epVars, ccVars, uploads,
                       descriptions, a_req, a_resp>>

\* upload_document raises error.
UploadRaises(error) ==
    /\ u_pc' = "raised"
    /\ u_out' = [kind |-> "raised", error |-> error]

UpInit ==
    /\ SelIdle
    /\ ExtIdle
    /\ EpIdle
    /\ CcIdle
    /\ AdmIdle
    /\ agent_client = NoneVal
    /\ c_pc = "off"
    /\ c_in = NoChatInput
    /\ c_out = NoChatOutput
    /\ apiKey \in BOOLEAN
    /\ backend = DocsBackend
    /\ u_pc = "idle"
    /\ u_store = NoneVal
    /\ u_temp = "none"
    /\ u_op = FALSE
    /\ u_polls = <<0, 0>>
    /\ u_out = NoUploadOutcome
    /\ b_file = "none"
    /\ b_op = FALSE

\* upload_document up to the first test of the first loop: the client, the
\* store, and client.files.upload, which raises or returns the temporary file
\* in the state it has at the hosted service.
UploadBegin ==
    /\ u_pc = "idle"
    /\ \E initOk \in InitOutcomes(apiKey), domain \in UploadDomains,
          listFails \in BOOLEAN,
          uploaded \in {"raise", "PROCESSING", "ACTIVE", "FAILED"} :
          LET handle == ManagerInit(apiKey, initOk)
              store == ManagerGetStore(handle, backend, domain, listFails)
          IN IF ~Truthy(handle) \/ ~store.found
             THEN /\ UploadRaises("ValueError")
                  /\ UNCHANGED <<u_store, u_temp, b_file>>
             ELSE IF uploaded = "raise"
                  THEN /\ UploadRaises("Exception")
                       /\ UNCHANGED <<u_store, u_temp, b_file>>
                  ELSE /\ u_pc' = "file_loop"
                       /\ u_store' = store.name
                       /\ u_temp' = uploaded
                       /\ b_file' = uploaded
                       /\ UNCHANGED u_out
    /\ UNCHANGED <<u_op, u_polls, b_op, documents>>
    /\ UpFrame

\* The test of the first loop and, when the loop is over, the test of the
\* state it ended with.
FileLoopTest ==
    /\ u_pc = "file_loop"
    /\ IF FileNotReady(u_temp)
       THEN u_pc' = "file_get" /\ UNCHANGED u_out
       ELSE IF u_temp # "ACTIVE"
            THEN UploadRaises("RuntimeError")
            ELSE u_pc' = "import" /\ UNCHANGED u_out
    /\ UNCHANGED <<u_store, u_temp, u_op, u_polls, b_file, b_op, documents>>
    /\ UpFrame

\* time.sleep(2); temp_file = client.files.get(...), which raises or returns
\* the state the file has now.
FileGet ==
    /\ u_pc = "file_get"
    /\ \/ /\ UploadRaises("Exception")
          /\ UNCHANGED <<u_temp, u_polls>>
       \/ /\ u_pc' = "file_loop"
          /\ u_temp' = b_file
          /\ u_polls' = <<Polled(u_polls[1]), u_polls[2]>>
          /\ UNCHANGED u_out
    /\ UNCHANGED <<u_store, u_op, b_file, b_op, documents>>
    /\ UpFrame

\* The hosted service is done with the temporary file.
BackendFile ==
    /\ u_pc \in FileLoop
    /\ b_file = "PROCESSING"
    /\ b_file' \in {"ACTIVE", "FAILED"}
    /\ UNCHANGED <<u_pc, u_store, u_temp, u_op, u_polls, u_out, b_op, documents>>
    /\ UpFrame

\* _extract_metadata, _delete_existing and upload_to_file_search_store, which
\* raises or returns the operation, done or not.
UploadImport ==
    /\ u_pc = "import"
    /\ \E stage \in {"ok", "meta_raise", "import_raise"}, existingFails, done \in BOOLEAN :
          LET kept == DeleteExisting(documents, u_store, UploadFile, existingFails)
          IN IF stage = "meta_raise"
             THEN /\ UploadRaises("Exception")
                  /\ UNCHANGED <<documents, u_op, b_op>>
             ELSE IF stage = "import_raise"
                  THEN /\ UploadRaises("Exception")
                       /\ documents' = kept
                       /\ UNCHANGED <<u_op, b_op>>
                  ELSE /\ Len(kept) < MaxDocs
                       /\ documents' = Append(kept, [parent |-> u_store,
                                                     name |-> FreshDocName(kept, u_store),
                                                     display_name |-> <<"T">>,
                                                     file_name |-> UploadFile])
                       /\ u_op' = done
                       /\ b_op' = done
                       /\ u_pc' = "op_loop"
                       /\ UNCHANGED u_out
    /\ UNCHANGED <<u_store, u_temp, u_polls, b_file>>
    /\ UpFrame

\* The test of the second loop and, when the loop is over, the result.
OperationLoopTest ==
    /\ u_pc = "op_loop"
    /\ IF OperationNotDone(u_op)
       THEN u_pc' = "op_get" /\ UNCHANGED u_out
       ELSE /\ u_pc' = "returned"
            /\ u_out' = [kind |-> "returned", error |-> ""]
    /\ UNCHANGED <<u_store, u_temp, u_op, u_polls, b_file, b_op, documents>>
    /\ UpFrame

\* time.sleep(3); operation = client.operations.get(operation), which raises
\* or returns the operation as it is now.
OperationGet ==
    /\ u_pc = "op_get"
    /\ \/ /\ UploadRaises("Exception")
          /\ UNCHANGED <<u_op, u_polls>>
       \/ /\ u_pc' = "op_loop"
          /\ u_op' = b_op
          /\ u_polls' = <<u_polls[1], Polled(u_polls[2])>>
          /\ UNCHANGED u_out
    /\ UNCHANGED <<u_store, u_temp, b_file, b_op, documents>>
    /\ UpFrame

\* The hosted service has finished the indexing.
BackendOperation ==
    /\ u_pc \in OperationLoop
    /\ ~b_op
    /\ b_op' = TRUE
    /\ UNCHANGED <<u_pc, u_store, u_temp, u_op, u_polls, u_out, b_file, documents>>
    /\ UpFrame

\* The caller has the result or the exception; the next upload can start.
UploadNext ==
    /\ u_pc \in UploadEnded
    /\ u_pc' = "idle"
    /\ u_store' = NoneVal
    /\ u_temp' = "none"
    /\ u_op' = FALSE
    /\ u_polls' = <<0, 0>>
    /\ u_out' = NoUploadOutcome
    /\ b_file' = "none"
    /\ b_op' = FALSE
    /\ UNCHANGED documents
    /\ UpFrame

UploadSteps ==
    \/ UploadBegin
    \/ FileLoopTest
    \/ FileGet
    \/ UploadImport
    \/ OperationLoopTest
    \/ OperationGet
    \/ UploadNext

UpNext == UploadSteps \/ BackendFile \/ BackendOperation

\* upload_document keeps running, and the hosted service gets done with
\* the file and with the indexing it has been given.
SpecUploadLive ==
    /\ UpInit
    /\ [][UpNext]_vars
    /\ WF_vars(UploadSteps)
    /\ WF_vars(BackendFile)
    /\ WF_vars(BackendOperation)

(***************************************************************************)
(* Concurrent requests to POST /chat: the handlers run on one event loop   *)
(* and share the agent; a handler gives way to the others only while it    *)
(* waits in asyncio.to_thread, in the selector and in the follow-up        *)
(***************************************************************************)
CcRequests == 1..MaxRequests

CcDomains == {NoneVal, "hours"}

\* What the service does during one of the requests; genai.Client(...)
\* does the same for all of them.
CcEnvs(handle) ==
    [managerOk : {apiKey},
     failAt : {0},
     select : {[kind |-> "raise", stores |-> <<>>],
               [kind |-> "ok", stores |-> <<"hours">>]},
     initOk : IF ~Truthy(handle) /\ apiKey THEN BOOLEAN ELSE {FALSE},
     listFails : {FALSE},
     chat : {[create |-> "ok", send |-> "ok",
              response |-> [shape |-> "no_gm", chunks |-> <<>>],
              text |-> <<"answer">>]},
     follow : {[raises |-> FALSE, lines |-> <<"Quali sono gli orari?">>]}]

CcInputs(handle) ==
    [request : [message : EpMessages, domain : CcDomains, language : {NoText},
                conversation_id : {NoneVal}],
     env : CcEnvs(handle)]

NoResult == [client |-> NoneVal, raised |-> FALSE, payload |-> NoPayload, calls |-> <<>>]
NoMid == [sel |-> NotSelected, result |-> NoResult]

CcLang(r) == NormalizeLanguage(cc_in[r].request.language, allowEnglish)

\* extra_stores as the handler of request r passes it to the selector.
CcExtraArg(r) ==
    EndpointExtraArg(ManagerListStores(ManagerInit(apiKey, cc_in[r].env.managerOk),
                                       backend, documents, cc_in[r].env.failAt, 0),
                     descriptions)

\* select_stores_for_query reaches `await asyncio.to_thread(...)`: it is
\* called, and with a client and a key.
SelectorSuspends(req, client) == ~UsesDomain(req) /\ Truthy(client) /\ apiKey

\* The response of request r alone: the handler run from the handle the
\* agent had when the requests arrived, the service answering the same.
AloneResponse(r) ==
    LET req == cc_in[r].request
        env == cc_in[r].env
        sel == EndpointSelect(req, cc_init, apiKey, CcExtraArg(r), env.select)
        result == EndpointChat(req, cc_init, apiKey, backend, env, CcLang(r), sel)
        follow == FollowUp(result.client, req.message, result.payload.response,
                           CcLang(r), env.follow)
    IN EndpointResponse(req, cc_init, CcLang(r), CcExtraArg(r), sel, result, follow).resp

CcInit ==
    /\ SelIdle
    /\ ExtIdle
    /\ AdmIdle
    /\ EpIdle
    /\ UpIdle
    /\ apiKey \in BOOLEAN
    /\ \E initOk \in BOOLEAN : agent_client = Initialize(NoneVal, apiKey, initOk)
    /\ backend = EpBackend
    /\ c_pc = "off"
    /\ c_in = NoChatInput
    /\ c_out = NoChatOutput
    /\ cc_init = agent_client
    /\ cc_in \in [CcRequests -> CcInputs(agent_client)]
    /\ \A r, q \in CcRequests : cc_in[r].env.initOk = cc_in[q].env.initOk
    /\ cc_pc = [r \in CcRequests |-> "new"]
    /\ cc_mid = [r \in CcRequests |-> NoMid]
    /\ cc_resp = [r \in CcRequests |-> NoChatResponse]

\* `result = await agent.chat(...)` and what follows up to the next wait:
\* chat() does not wait, so the handle is tested and set in one step; then
\* `if agent.client:` either starts the follow-up or the response is built.
CcChat(r, sel) ==
    \E result \in {EndpointChat(cc_in[r].request, agent_client, apiKey, backend,
                                cc_in[r].env, CcLang(r), sel)} :
       /\ agent_client' = result.client
       /\ cc_mid' = [cc_mid EXCEPT ![r] = [sel |-> sel, result |-> result]]
       /\ IF Truthy(result.client)
          THEN /\ cc_pc' = [cc_pc EXCEPT ![r] = "following"]
               /\ UNCHANGED cc_resp
          ELSE /\ cc_pc' = [cc_pc EXCEPT ![r] = "done"]
               /\ cc_resp' = [cc_resp EXCEPT ![r] =
                     EndpointResponse(cc_in[r].request, agent_client, CcLang(r),
                                      CcExtraArg(r), sel, result,
                                      FollowUp(result.client, cc_in[r].request.message,
                                               result.payload.response, CcLang(r),
                                               cc_in[r].env.follow)).resp]
       /\ UNCHANGED <<apiKey, upVars, epVars, admVars, selVars, extVars, backend,
                      c_pc, c_in, c_out, cc_init, cc_in>>

\* The handler of request r starts: with a domain, or with a selector that
\* returns at once, it goes on to agent.chat; else it waits for the
\* classification, agent.client having been read as the argument.
CcBegin(r) ==
    /\ cc_pc[r] = "new"
    /\ IF SelectorSuspends(cc_in[r].request, agent_client)
       THEN /\ cc_pc' = [cc_pc EXCEPT ![r] = "selecting"]
            /\ UNCHANGED <<apiKey, upVars, epVars, admVars, selVars, extVars, chatVars,
                           cc_init, cc_in, cc_mid, cc_resp>>
       ELSE \E sel \in {EndpointSelect(cc_in[r].request, agent_client, apiKey,
                                       CcExtraArg(r), cc_in[r].env.select)} :
               CcChat(r, sel)

\* The classification of request r is back; the handler goes on to agent.chat.
CcSelected(r) ==
    /\ cc_pc[r] = "selecting"
    /\ \E sel \in {EndpointSelect(cc_in[r].request, Client, apiKey, CcExtraArg(r),
                                   cc_in[r].env.select)} :
          CcChat(r, sel)

\* The follow-up suggestions of request r are back; the response is built.
CcFollowed(r) ==
    /\ cc_pc[r] = "following"
    /\ cc_pc' = [cc_pc EXCEPT ![r] = "done"]
    /\ cc_resp' = [cc_resp EXCEPT ![r] =
          EndpointResponse(cc_in[r].request, agent_client, CcLang(r), CcExtraArg(r),
                           cc_mid[r].sel, cc_mid[r].result,
                           FollowUp(agent_client, cc_in[r].request.message,
                                    cc_mid[r].result.payload.response, CcLang(r),
                                    cc_in[r].env.follow)).resp]
    /\ UNCHANGED <<apiKey, upVars, epVars, admVars, selVars, extVars, chatVars,
                   cc_init, cc_in, cc_mid>>

CcNext ==
    \E r \in CcRequests : CcBegin(r) \/ CcSelected(r) \/ CcFollowed(r)

SpecConcurrent == CcInit /\ [][CcNext]_vars

(***************************************************************************)
(* Claims about the store selector (checked under SpecSel)                 *)
(***************************************************************************)

\* The registry ids as the specification states them: the four seed ids plus
\* the id (else domain) of every extra store passed in.
RegistryIds(extra) ==
    {"general_info", "hours", "locations", "services"}
    \cup {x \in {ExtraEntry(s).id : s \in Range(extra.items)} : Truthy(x)}

\* C1: for every extra-store list and every outcome of the remote
\* classification call, select_stores_for_query returns a non-empty list
\* whose every element is an id of the registry.
C1_SelectionNonEmptyAndValid ==
    s_pc = "done" =>
        /\ s_ret # <<>>
        /\ \A i \in 1..Len(s_ret) : s_ret[i] \in RegistryIds(s_extra)

\* C1 witness: the model answered an invented id next to the id of an extra
\* store, and the call returned the extra id.
C1_Witness ==
    /\ s_pc = "done"
    /\ s_outcome.kind = "ok"
    /\ "bogus" \in Range(s_outcome.stores)
    /\ "docs" \in Range(s_ret)

\* The cases in which the selector must fall back.
SelFallbackCase ==
    \/ ~Truthy(s_client)
    \/ ~apiKey
    \/ s_outcome.kind \in {"raise", "none", "wrongtype"}
    \/ /\ s_outcome.kind = "ok"
       /\ \A i \in 1..Len(s_outcome.stores) :
              s_outcome.stores[i] \notin RegistryIds(s_extra)

\* C2: select_stores_for_query returns exactly ["general_info"] and does not
\* raise whenever no client or API key is configured, the remote call raises,
\* the parsed result is missing or of the wrong type, or no returned id
\* survives the registry filter.
C2_FallbackIsGeneralInfo ==
    (s_pc = "done" /\ SelFallbackCase) =>
        /\ s_ret = <<"general_info">>
        /\ ~s_raised

\* C2 witness: the remote classification call raised and the fallback was
\* returned.
C2_Witness ==
    /\ s_pc = "done"
    /\ s_outcome.kind = "raise"
    /\ s_calls = 1
    /\ s_ret = <<"general_info">>

\* Index of the first extra store whose id is sid (0 when there is none).
FirstExtraWithId(items, sid) ==
    LET hits == {i \in 1..Len(items) : ExtraEntry(items[i]).id = sid}
    IN IF hits = {} THEN 0 ELSE CHOOSE i \in hits : \A j \in hits : i <= j

\* C20: the registry built for routing has pairwise distinct ids, starts with
\* the four seed ids carrying their configured descriptions, and every other
\* entry carries the description of the first extra store with its id; an
\* extra store whose id is a seed id or the id of an earlier extra store adds
\* nothing.
C20_RegistryUniqueSeedsKept ==
    s_pc = "done" =>
        /\ \A i, j \in 1..Len(s_full) : s_full[i].id = s_full[j].id => i = j
        /\ Len(s_full) >= 4
        /\ s_full[1] = [id |-> "general_info", description |-> "desc_general_info"]
        /\ s_full[2] = [id |-> "hours", description |-> "desc_hours"]
        /\ s_full[3] = [id |-> "locations", description |-> "desc_locations"]
        /\ s_full[4] = [id |-> "services", description |-> "desc_services"]
        /\ \A i \in 5..Len(s_full) :
              LET k == FirstExtraWithId(s_extra.items, s_full[i].id)
              IN /\ k > 0
                 /\ s_full[i] = ExtraEntry(s_extra.items[k])
        /\ {s_full[i].id : i \in 1..Len(s_full)} = RegistryIds(s_extra)

\* C20 witness: the extra list held a store with the seed id "hours" and a
\* store with the new id "docs"; the registry built has five entries.
C20_Witness ==
    /\ s_pc = "done"
    /\ Len(s_extra.items) = 2
    /\ ExtraEntry(s_extra.items[1]).id = "hours"
    /\ ExtraEntry(s_extra.items[1]).description = "desc_a"
    /\ ExtraEntry(s_extra.items[2]).id = "docs"
    /\ Len(s_full) = 5

(***************************************************************************)
(* Claims about the citation extraction (checked under SpecExt, and under  *)
(* SpecSnippet for the snippet)                                            *)
(***************************************************************************)
ChunkTitle(chunk) == TitleOf(MetaOf(chunk))
ChunkUrl(chunk) == Get(MetaOf(chunk), "url")

\* The chunks traversed have pairwise distinct titles and pairwise distinct urls.
PairwiseDistinctChunks ==
    \A i, j \in 1..Len(e_chunks) :
        i # j => /\ ChunkTitle(e_chunks[i]) # ChunkTitle(e_chunks[j])
                 /\ ChunkUrl(e_chunks[i]) # ChunkUrl(e_chunks[j])

\* C3: the link list never holds more than 5 entries at any point of the
\* traversal; a response of 6 chunks of pairwise distinct title and url
\* returns 6 sources and exactly 5 links, those of the first five chunks.
C3_LinkCap ==
    /\ Len(e_links) <= 5
    /\ (e_pc = "done" /\ ~e_raised /\ Len(e_chunks) = 6 /\ PairwiseDistinctChunks) =>
          /\ Len(e_sources) = 6
          /\ Len(e_links) = 5
          /\ \A i \in 1..5 : e_links[i] = LinkEntry(e_chunks[i])

\* C3 witness: six pairwise distinct chunks were traversed and the call
\* returned five links.
C3_Witness ==
    /\ e_pc = "done"
    /\ ~e_raised
    /\ Len(e_chunks) = 6
    /\ PairwiseDistinctChunks
    /\ Len(e_links) = 5

\* The dedup key of a link entry, read from the entry itself.
LinkEntryKey(l) == <<Or(Or(l.url, l.document_id), ""), l.title>>

\* Indices of the chunks whose key occurs for the first time, in order.
FirstOccurrences(chunks) ==
    SelectSeq([i \in 1..Len(chunks) |-> i],
              LAMBDA i : \A j \in 1..(i - 1) : LinkKey(chunks[j]) # LinkKey(chunks[i]))

\* C4: no two link entries share a dedup key; chunks with an identical key
\* yield one link, that of the first such chunk, and links appear in the order
\* of first occurrence of their keys.
C4_LinkDedup ==
    ~e_raised =>
        LET first == FirstOccurrences(e_chunks)
        IN /\ \A i, j \in 1..Len(e_links) :
                 i # j => LinkEntryKey(e_links[i]) # LinkEntryKey(e_links[j])
           /\ Len(e_links) <= Len(first)
           /\ \A k \in 1..Len(e_links) : e_links[k] = LinkEntry(e_chunks[first[k]])
           /\ Len(first) <= 5 => Len(e_links) = Len(first)
           /\ Len(first) > 5 => Len(e_links) = 5

\* C4 witness: two different chunks with the same key were traversed, then a
\* chunk with another key; two links were returned for three sources.
C4_Witness ==
    /\ e_pc = "done"
    /\ ~e_raised
    /\ Len(e_chunks) = 3
    /\ e_chunks[1] # e_chunks[2]
    /\ LinkKey(e_chunks[1]) = LinkKey(e_chunks[2])
    /\ LinkKey(e_chunks[3]) # LinkKey(e_chunks[1])
    /\ Len(e_links) = 2
    /\ Len(e_sources) = 3

\* C5: the snippet of a chunk content of length n is the content unchanged
\* when n <= 200 and its first 200 characters followed by "..." (length 203)
\* when n > 200.
C5_SnippetTruncation ==
    ~e_raised =>
        \A i \in 1..Len(e_chunks) :
            LET content == ContentOf(e_chunks[i])
                snippet == e_sources[i].snippet
            IN /\ Len(content) <= 200 => snippet = content
               /\ Len(content) > 200 =>
                     /\ Len(snippet) = 203
                     /\ SubSeq(snippet, 1, 200) = SubSeq(content, 1, 200)
                     /\ SubSeq(snippet, 201, 203) = <<".", ".", ".">>

\* C5 witness: a content of 201 characters was truncated to 203.
C5_Witness ==
    /\ e_pc = "done"
    /\ Len(e_chunks) = 1
    /\ Len(ContentOf(e_chunks[1])) = 201
    /\ Len(e_sources[1].snippet) = 203

\* C10: the source list has exactly one entry per grounding chunk, in traversal
\* order, the i-th source derived from the i-th chunk, whatever the duplicates
\* and the link cap; with no candidates or no grounding metadata both lists
\* are empty.
C10_OneSourcePerChunk ==
    ~e_raised =>
        /\ Len(e_sources) = Len(e_chunks)
        /\ \A i \in 1..Len(e_chunks) :
              /\ e_sources[i].title = ChunkTitle(e_chunks[i])
              /\ e_sources[i].url = ChunkUrl(e_chunks[i])
              /\ e_sources[i].snippet = Snippet(ContentOf(e_chunks[i]))
              /\ e_sources[i].source_type = SourceTypeOf(MetaOf(e_chunks[i]))
        /\ (e_pc = "done" /\ e_shape \in {"no_candidates", "no_gm"}) =>
              (e_sources = <<>> /\ e_links = <<>>)

\* C10 witness: six chunks with duplicates among them were traversed: six
\* sources and fewer links were returned.
C10_Witness ==
    /\ e_pc = "done"
    /\ ~e_raised
    /\ Len(e_chunks) = 6
    /\ Len(e_sources) = 6
    /\ Len(e_links) = 2

(***************************************************************************)
(* Claims about the metadata of the citations (checked under SpecMeta, the *)
(* link without url and document id under SpecExt)                         *)
(***************************************************************************)
\* The value the metadata of a chunk give for key k, read from the chunk: that
\* of the last entry of the retrieved context with this key, else the
\* top-level value, else Absent.
Effective(chunk, k) ==
    LET items == chunk.rc.items
        at == {j \in 1..Len(items) : items[j].hasAttrs /\ items[j].key = k}
    IN IF chunk.rc.kind = "list" /\ at # {}
       THEN items[CHOOSE j \in at : \A i \in at : i <= j].string_value
       ELSE IF chunk.top.kind = "dict" THEN chunk.top.d[k] ELSE Absent

\* None for a key that is not defined.
Defined(v) == IF v = Absent THEN NoneVal ELSE v

EffectiveTitle(chunk) ==
    IF Truthy(Effective(chunk, "title")) THEN Effective(chunk, "title")
    ELSE IF Truthy(Effective(chunk, "display_name"))
         THEN Effective(chunk, "display_name")
         ELSE "Fonte"

EffectiveKind(chunk) ==
    IF Effective(chunk, "source_type") # Absent THEN Effective(chunk, "source_type")
    ELSE IF Truthy(Effective(chunk, "url")) THEN "website" ELSE "attachment"

\* The traversal step that has just run on the chunk e_chunks'[Len(e_chunks')].
Traversed == Len(e_chunks') = Len(e_chunks) + 1 /\ ~e_raised'

LinkAppended == Len(e_links') = Len(e_links) + 1

\* C21: the source of every chunk traversed has the title, url and source kind
\* that the metadata give when the entries of the retrieved context take
\* precedence over the top-level values key by key, and the link appended for
\* it has, besides, the document id they give.
C21_RetrievedContextWins ==
    [][Traversed =>
         LET chunk == e_chunks'[Len(e_chunks')]
             source == e_sources'[Len(e_sources')]
             link == e_links'[Len(e_links')]
         IN /\ Len(e_sources') = Len(e_chunks')
            /\ source.title = EffectiveTitle(chunk)
            /\ source.url = Defined(Effective(chunk, "url"))
            /\ source.source_type = EffectiveKind(chunk)
            /\ LinkAppended =>
                  /\ link.title = EffectiveTitle(chunk)
                  /\ link.source_type = EffectiveKind(chunk)
                  /\ Or(link.url, NoneVal) = Or(Effective(chunk, "url"), NoneVal)
                  /\ Or(link.document_id, NoneVal)
                        = Or(Effective(chunk, "document_id"), NoneVal)
      ]_vars

\* C21 witness: the first chunk defines title, url, document id and source
\* kind at both levels and its source and link carry the values of the
\* retrieved context; the second defines them at top level and only the title
\* in the retrieved context: its source has that title and the top-level url.
C21_Witness ==
    /\ Len(e_chunks) = 2
    /\ ~e_raised
    /\ e_chunks[1].top.d["title"] = "t_top"
    /\ Len(e_chunks[1].rc.items) = 4
    /\ e_sources[1].title = "t_rc"
    /\ e_sources[1].url = "https://u_rc"
    /\ e_sources[1].source_type = "kind_rc"
    /\ e_links[1].document_id = "doc_rc"
    /\ e_chunks[2].top.d["title"] = "t_top"
    /\ e_chunks[2].rc.items = <<MetaEntry("title", "t_rc")>>
    /\ e_sources[2].title = "t_rc"
    /\ e_sources[2].url = "https://u_top"
    /\ e_sources[2].source_type = "kind_top"

\* The keys of a link entry that are set.
LinkKeys(l) == {k \in DOMAIN l : l[k] # Absent}

\* C22 as stated: every link entry has a title, a source kind and a url or a
\* document id, and no snippet.
C22_Original ==
    \A i \in 1..Len(e_links) :
        /\ {"title", "source_type"} \subseteq LinkKeys(e_links[i])
        /\ LinkKeys(e_links[i]) \cap {"url", "document_id"} # {}
        /\ "snippet" \notin LinkKeys(e_links[i])

\* C22: every link entry has a non-empty title and a source kind, has a url
\* only when the url is a non-empty string and a document id only when the
\* document id is a non-empty string, and has no other key, no snippet in
\* particular; an entry may have neither url nor document id.
C22_LinkFields ==
    \A i \in 1..Len(e_links) :
        LET l == e_links[i]
        IN /\ {"title", "source_type"} \subseteq LinkKeys(l)
           /\ LinkKeys(l) \subseteq {"title", "source_type", "url", "document_id"}
           /\ Truthy(l.title)
           /\ "url" \in LinkKeys(l) => Truthy(l.url)
           /\ "document_id" \in LinkKeys(l) => Truthy(l.document_id)

\* C22 witness: the first link has a title and a source kind only, the second
\* has a url and a document id as well.
C22_Witness ==
    /\ Len(e_links) = 2
    /\ LinkKeys(e_links[1]) = {"title", "source_type"}
    /\ e_links[1].title = "Fonte"
    /\ e_links[1].source_type = "attachment"
    /\ LinkKeys(e_links[2]) = {"title", "source_type", "url", "document_id"}

\* The chunk gives neither a url nor a document id.
NoLocator(chunk) ==
    ~Truthy(Effective(chunk, "url")) /\ ~Truthy(Effective(chunk, "document_id"))

\* C23: a chunk without url and document id gets a link entry exactly when no
\* link entry with the key ("", title) exists yet and fewer than 5 links
\* exist; that entry has neither url nor document id.
C23_LinkWithoutLocator ==
    [][(Traversed /\ NoLocator(e_chunks'[Len(e_chunks')])) =>
         LET chunk == e_chunks'[Len(e_chunks')]
             seen == \E i \in 1..Len(e_links) :
                        LinkEntryKey(e_links[i]) = <<"", EffectiveTitle(chunk)>>
         IN /\ LinkAppended <=> (~seen /\ Len(e_links) < 5)
            /\ ~LinkAppended => e_links' = e_links
            /\ LinkAppended =>
                  /\ LinkKeys(e_links'[Len(e_links')]) = {"title", "source_type"}
                  /\ e_links'[Len(e_links')].title = EffectiveTitle(chunk)
      ]_vars

\* C23 witness: a chunk without any metadata, a chunk with a url, and the
\* first chunk again: three sources, two links, the first link without url
\* and document id.
C23_Witness ==
    /\ Len(e_chunks) = 3
    /\ ~e_raised
    /\ NoLocator(e_chunks[1])
    /\ ~NoLocator(e_chunks[2])
    /\ e_chunks[3] = e_chunks[1]
    /\ Len(e_sources) = 3
    /\ Len(e_links) = 2
    /\ LinkKeys(e_links[1]) = {"title", "source_type"}

\* C24 as stated: the source of a chunk that defines a document id carries
\* that document id.
C24_Original ==
    ~e_raised =>
        \A i \in 1..Len(e_chunks) :
            Truthy(Effective(e_chunks[i], "document_id")) =>
                /\ "document_id" \in DOMAIN e_sources[i]
                /\ e_sources[i].document_id = Effective(e_chunks[i], "document_id")

\* C24: every source entry has exactly the keys title, url, snippet and
\* source_type, the url being None when the chunk gives none; the document id
\* of a chunk is not in its source, it is in the link appended for the chunk.
C24_SourceFields ==
    [][Traversed =>
         LET chunk == e_chunks'[Len(e_chunks')]
             source == e_sources'[Len(e_sources')]
         IN /\ DOMAIN source = {"title", "url", "snippet", "source_type"}
            /\ source.url = Defined(Effective(chunk, "url"))
            /\ source.snippet = ContentOf(chunk)
            /\ (LinkAppended /\ Truthy(Effective(chunk, "document_id"))) =>
                  e_links'[Len(e_links')].document_id = Effective(chunk, "document_id")
      ]_vars

\* C24 witness: a chunk that defines the document id doc_rc was traversed; its
\* source has the four keys and its link has the document id.
C24_Witness ==
    /\ Len(e_chunks) = 1
    /\ ~e_raised
    /\ Effective(e_chunks[1], "document_id") = "doc_rc"
    /\ DOMAIN e_sources[1] = {"title", "url", "snippet", "source_type"}
    /\ e_links[1].document_id = "doc_rc"

(***************************************************************************)
(* Claims about agent.chat (checked under SpecChat)                        *)
(***************************************************************************)
Payload == c_out.payload

\* The payload chat() returns when no client is configured.
NoClientPayload == AgentChat(NoneVal, FALSE, <<>>, NoChatInput).payload

\* C6: when the hosted client is unavailable (no credential, or the
\* re-initialisation at the start of the call fails), chat() issues no remote
\* call and returns a text containing the demo marker with empty sources,
\* links and stores_used.
C6_DemoWhenNoClient ==
    (c_pc = "done" /\ ~Truthy(c_in.handle) /\ (~apiKey \/ ~c_in.initOk)) =>
        /\ c_out.calls = <<>>
        /\ ~c_out.raised
        /\ DEMO_MARKER \in Range(Payload.response)
        /\ Payload.sources = <<>>
        /\ Payload.links = <<>>
        /\ Payload.stores_used = <<>>

\* C6 witness: a credential is configured, the handle is null and its
\* re-initialisation failed, in a call the hosted model would have answered.
C6_Witness ==
    /\ c_pc = "done"
    /\ apiKey
    /\ ~Truthy(c_in.handle)
    /\ ~c_in.initOk
    /\ c_in.send = "ok"
    /\ c_in.store_ids.items = <<"hours">>
    /\ c_out.calls = <<>>

\* An error while extracting the citations of the response.
ExtractionError ==
    /\ c_in.send = "ok"
    /\ c_in.response.shape = "chunks"
    /\ \E i \in 1..Len(c_in.response.chunks) : c_in.response.chunks[i].top.kind = "list"

\* A failure of the chat turn: chat creation or send_message raising, a null
\* response, no candidates, an empty text, an extraction error.
TurnFailure ==
    \/ c_in.create = "raise"
    \/ c_in.send \in {"raise", "null", "no_candidates", "empty_text"}
    \/ ExtractionError

\* A file_search_stores.list() call of the chat call raised.
ListingError == \E i \in 1..Len(c_in.listFail) : c_in.listFail[i]

\* C7 as stated: every failure inside chat() once a client exists, store
\* listing errors included, ends in the canned fallback payload, without
\* raising.
C7_Original ==
    (c_pc = "done" /\ Truthy(agent_client) /\ (TurnFailure \/ ListingError)) =>
        /\ ~c_out.raised
        /\ Payload = NoClientPayload

\* C7 (amended): every failure of the chat turn once a client exists (chat
\* creation or send_message raising, null response, no candidates, empty text,
\* extraction error) ends, without raising, in the canned fallback payload,
\* which is field for field the payload of the no-client case and depends on
\* neither message, stores nor cause; a store listing error is not such a
\* failure: whenever the turn itself does not fail, the answer of the model
\* is returned.
C7_FallbackOnTurnFailure ==
    c_pc = "done" /\ Truthy(agent_client) =>
        /\ ~c_out.raised
        /\ TurnFailure => Payload = NoClientPayload
        /\ ~TurnFailure => Payload.response = c_in.text

\* C7 witness: with a client and a resolved store, the citations of the answer
\* to the second message could not be extracted and the canned payload was
\* returned.
C7_Witness ==
    /\ c_pc = "done"
    /\ Truthy(agent_client)
    /\ c_in.message = "m2"
    /\ c_in.store_ids.items = <<"hours">>
    /\ ~ListingError
    /\ ExtractionError
    /\ Payload = NoClientPayload
    /\ Len(c_out.calls) = 3

\* The id resolves in the backend listing: the first store with its display
\* name exists and has a name.
ResolvesIn(id, stores) ==
    LET matches == {k \in 1..Len(stores) : stores[k].display_name = <<"ulss9", id>>}
    IN /\ matches # {}
       /\ Truthy(stores[CHOOSE k \in matches : \A m \in matches : k <= m].name)

\* The call returned the answer of the model.
Answered == c_pc = "done" /\ Truthy(agent_client) /\ ~TurnFailure

\* The tools of the send_message call of the chat call.
SentTools == c_out.calls[Len(c_out.calls)].tools

\* C8: with an explicit domain, retrieval is scoped to that store alone and
\* store_ids is ignored: stores_used is [domain] when the domain resolves and
\* empty otherwise (stated for the calls that return an answer and in which
\* no listing failed).
C8_DomainWinsOverStoreIds ==
    (Answered /\ Truthy(c_in.domain) /\ ~ListingError) =>
        Payload.stores_used =
            IF ResolvesIn(c_in.domain, backend) THEN <<c_in.domain>> ELSE <<>>

\* Multi-store mode: a non-empty store_ids and no domain.
MultiMode == c_in.domain = NoneVal /\ c_in.store_ids.items # <<>>

\* The requested ids that resolve, in request order.
ResolvedIds ==
    LET ids == c_in.store_ids.items
        idx == SelectSeq([i \in 1..Len(ids) |-> i],
                         LAMBDA i : ~c_in.listFail[i] /\ ResolvesIn(ids[i], backend))
    IN [k \in 1..Len(idx) |-> ids[idx[k]]]

\* C9 as stated: in multi-store mode stores_used is always the subsequence of
\* the requested ids that resolve.
C9_Original ==
    (c_pc = "done" /\ Truthy(agent_client) /\ MultiMode) =>
        Payload.stores_used = ResolvedIds

\* C9 (amended): in multi-store mode, when chat() returns the answer of the
\* model, stores_used is exactly the subsequence of the requested ids that
\* resolve, in request order, unresolved ids being skipped without error; when
\* the call ends in the canned fallback, stores_used is empty; when no
\* requested id resolves, the turn is still sent, without retrieval tool.
C9_StoresUsedAreResolved ==
    (c_pc = "done" /\ Truthy(agent_client) /\ MultiMode) =>
        /\ ~c_out.raised
        /\ Payload.stores_used = IF TurnFailure THEN <<>> ELSE ResolvedIds
        /\ (ResolvedIds = <<>> /\ c_in.create = "ok") =>
              /\ c_out.calls[Len(c_out.calls)].op = "send_message"
              /\ SentTools = <<>>
        /\ (ResolvedIds # <<>> /\ c_in.create = "ok") =>
              /\ Len(SentTools) = 1
              /\ Len(SentTools[1]) = Len(ResolvedIds)

\* C9 witness: the first requested id did not resolve, the second did, and the
\* answer names the second alone.
C9_Witness ==
    /\ Answered
    /\ MultiMode
    /\ c_in.store_ids.items = <<"locations", "hours">>
    /\ ~ListingError
    /\ ~ResolvesIn("locations", backend)
    /\ Payload.stores_used = <<"hours">>

(***************************************************************************)
(* Claims about the admin API (checked under SpecAdmin and SpecDocs)       *)
(***************************************************************************)

\* The administrative operations on categories and documents.
AdminOps ==
    {"create_store", "delete_store", "delete_all_stores", "create_all_ulss9_stores",
     "upload_document", "list_documents", "delete_document", "list_stores"}

\* A valid, unexpired bearer token whose subject is the admin user.
ValidAdminToken(credentials) ==
    /\ credentials.present
    /\ credentials.sig = "ok"
    /\ ~credentials.expired
    /\ credentials.sub = "tesfayh"

\* C11: every administrative operation (create category, delete category,
\* delete all, create the four seed categories, upload, list documents, delete
\* document, list stores) is answered 401 unless the request carries a valid,
\* unexpired bearer token whose subject is the admin user.
C11_AdminRequiresToken ==
    (a_req.op \in AdminOps /\ ~ValidAdminToken(a_req.credentials)) =>
        a_resp.status = 401

\* The stores of the domain, and the documents of a name, the service holds.
StoresOf(stores, domain) ==
    {s \in Range(stores) : s.display_name = <<"ulss9", domain>>}

DocsNamed(docs, docName) == {d \in Range(docs) : d.name = docName}

\* C12: an authorised request to delete a category or a document is answered
\* with the success payload only if the store, or the document, was removed;
\* otherwise (no client, nothing of that name, a remote call that fails) it is
\* answered 404 and the stores and documents are what they were.
C12_DeleteNotFoundIs404 ==
    [][(a_req'.op \in {"delete_store", "delete_document"}
        /\ ValidAdminToken(a_req'.credentials)) =>
          /\ a_resp'.status \in {200, 404}
          /\ (a_resp'.status = 404) => (backend' = backend /\ documents' = documents)
          /\ (a_req'.op = "delete_store" /\ a_resp'.status = 200) =>
                /\ StoresOf(backend, a_req'.domain) # {}
                /\ StoresOf(backend', a_req'.domain) # StoresOf(backend, a_req'.domain)
          /\ (a_req'.op = "delete_store" /\ StoresOf(backend, a_req'.domain) = {}) =>
                a_resp'.status = 404
          /\ (a_req'.op = "delete_document" /\ a_resp'.status = 200) =>
                /\ DocsNamed(documents, a_req'.docName) # {}
                /\ DocsNamed(documents', a_req'.docName) = {}
          /\ (a_req'.op = "delete_document"
              /\ DocsNamed(documents, a_req'.docName) = {}) =>
                a_resp'.status = 404
      ]_vars

\* C12 witness: an authorised request to delete the category "docs" was
\* answered 404 although the store exists (the remote call failed), and the
\* store and its document are still there.
C12_Witness ==
    /\ a_req.op = "delete_store"
    /\ ValidAdminToken(a_req.credentials)
    /\ a_req.domain = "docs"
    /\ a_resp.status = 404
    /\ StoresOf(backend, "docs") # {}
    /\ \E i \in 1..Len(documents) : documents[i].parent = "fileSearchStores/docs-1"

\* The store_name a successful create answer must carry for the domain.
ExistingNames(stores, domain) == {s.name : s \in StoresOf(stores, domain)}

\* At most one store per domain id among the stores of this application.
OneStorePerDomain(stores) ==
    \A i, j \in 1..Len(stores) :
        (HasPrefix(stores[i].display_name)
         /\ stores[i].display_name = stores[j].display_name) => i = j

\* C13: (a) an authorised create_store for a domain whose store exists leaves
\* the stores as they are and, when it succeeds, returns the name of the
\* existing store; (b) as long as nothing was deleted the service holds at
\* most one store per domain id; (c) a successful create-all reports exactly
\* the four seed ids, in order.
C13_CreateIdempotent ==
    [][/\ (a_req'.op = "create_store"
           /\ ValidAdminToken(a_req'.credentials)
           /\ StoresOf(backend, a_req'.domain) # {}) =>
              /\ backend' = backend
              /\ a_resp'.status = 200 =>
                    a_resp'.store_name \in ExistingNames(backend, a_req'.domain)
       /\ (a_req'.op \in {"create_store", "create_all_ulss9_stores"}
           /\ OneStorePerDomain(backend)) => OneStorePerDomain(backend')
       /\ (a_req'.op = "create_all_ulss9_stores" /\ a_resp'.status = 200) =>
              /\ Len(a_resp'.stores) = 4
              /\ \A i \in 1..4 :
                    a_resp'.stores[i].domain =
                        <<"general_info", "hours", "locations", "services">>[i]
      ]_vars

\* The file names of the model that end in none of .pdf, .md, .txt, .docx.
UnsupportedNames ==
    {<<"b", ".", "c", "s", "v">>, <<"a", ".", "P", "D", "F">>, <<"p", "d", "f">>,
     <<"a", ".", "p", "d", "f", ".", "b", "a", "k">>}

Saved(saved, id) == IF id \in DOMAIN saved THEN saved[id] ELSE "<absent>"

\* Ids a description may be saved for in the model.
DescriptionIds == {"general_info", "hours", "locations", "services", "docs", "events"}

\* C19: no description is ever saved for one of the four seed ids; a request
\* that creates a category with a seed id leaves the saved mapping as it is,
\* one with another id and a description changes the entry of that id only,
\* and no other request changes the mapping.
C19_SeedDescriptionsKept ==
    [][/\ \A id \in {"general_info", "hours", "locations", "services"} :
             Saved(descriptions', id) = "<absent>"
       /\ \A id \in DescriptionIds :
             Saved(descriptions', id) # Saved(descriptions, id) =>
                /\ a_req'.op = "create_store"
                /\ a_req'.domain = id
                /\ a_resp'.status = 200
                /\ Saved(descriptions', id) = a_req'.description
       /\ (a_req'.op = "create_store" /\ a_resp'.status = 200
           /\ a_req'.domain = "docs" /\ a_req'.description # "") =>
             Saved(descriptions', "docs") = a_req'.description
      ]_vars

\* C19 witness: the description of "events" was found at start, that of
\* "docs" was saved, and then the category
\* "general_info" was created with a description: the answer is a success and
\* the saved mapping still holds the entries of "events" and "docs" only.
C19_Witness ==
    /\ a_req.op = "create_store"
    /\ a_resp.status = 200
    /\ a_req.domain = "general_info"
    /\ a_req.description = "desc_docs"
    /\ descriptions = ("events" :> "desc_events") @@ ("docs" :> "desc_docs")


\* C18: the body of every category listing starts with the four seed
\* categories in configuration order, with document count 0 for a seed no
\* backend store carries; every later entry has a non-seed id; and no id is
\* listed twice.
C18_DomainsSeedsFirstNoDuplicates ==
    a_req.op = "get_domains" =>
        LET body == a_resp.body
            n == Len(ULSS9_STORES)
        IN /\ a_resp.status = 200
           /\ Len(body) >= n
           /\ \A i \in 1..n :
                 /\ body[i].domain = ULSS9_STORES[i].id
                 /\ StoresOf(backend, ULSS9_STORES[i].id) = {} =>
                       body[i].document_count = 0
           /\ \A i \in (n + 1)..Len(body) : body[i].domain \notin INITIAL_IDS
           /\ \A i, j \in 1..Len(body) :
                 body[i].domain = body[j].domain => i = j


(***************************************************************************)
(* Claims about the chat endpoint (checked under SpecEndpoint)             *)
(***************************************************************************)
\* The calls of the handler to fn, in order.
CallsTo(fn) == SelectSeq(ep_trace, LAMBDA c : c.fn = fn)

\* C14: a request that names a domain is answered without a call of the store
\* selector and with one call of chat() that carries that domain and no
\* store_ids; a request that names none is answered with one call of the store
\* selector followed by one call of chat() that carries no domain and, as
\* store_ids, the list the selector returned; either way the response carries
\* the domain of the request and the stores_used that chat() returned.
C14_DomainOrSelectorThenChat ==
    ep_req.op = "chat" =>
        LET req == ep_req.request
            chats == CallsTo("agent.chat")
            selects == CallsTo("select_stores_for_query")
        IN /\ Len(chats) = 1
           /\ IF req.domain \notin {NoneVal, ""}
              THEN /\ selects = <<>>
                   /\ chats[1].domain = req.domain
                   /\ chats[1].store_ids.isNone
              ELSE /\ Len(selects) = 1
                   /\ ep_trace[2] = selects[1]
                   /\ ep_trace[3] = chats[1]
                   /\ chats[1].domain = NoneVal
                   /\ ~chats[1].store_ids.isNone
                   /\ chats[1].store_ids.items = selects[1].ret
           /\ ep_resp.status = 200
           /\ ep_resp.body.domain = req.domain
           /\ ep_resp.body.stores_used = chats[1].ret

\* C14 witness: a request without a domain; the classification answered
\* bogus, docs, hours, the selector returned docs, hours, chat() got that
\* list and reported both stores as used, and the response says so with a
\* null domain.
C14_Witness ==
    /\ ep_req.op = "chat"
    /\ ep_req.request.domain = NoneVal
    /\ Len(CallsTo("select_stores_for_query")) = 1
    /\ CallsTo("select_stores_for_query")[1].ret = <<"docs", "hours">>
    /\ CallsTo("agent.chat")[1].store_ids = Ids(<<"docs", "hours">>)
    /\ ep_resp.body.stores_used = <<"docs", "hours">>
    /\ ep_resp.body.domain = NoneVal

\* The language values that are "en" once trimmed and lower-cased.
EnglishTexts == {Text(<<"e", "n">>), Text(<<" ", "E", "N", " ">>)}

\* C15: every request the handler sends for the answer carries the English
\* directive when the request's language is "en" after trimming and
\* lower-casing and English is allowed, and the Italian directive otherwise;
\* chat() is called with "en" or "it" accordingly.
C15_ItalianUnlessAllowedEnglish ==
    ep_req.op = "chat" =>
        LET english == allowEnglish /\ ep_req.request.language \in EnglishTexts
            directive == IF english THEN "Always respond in English."
                         ELSE "Rispondi sempre in italiano."
        IN /\ \A i \in 1..Len(ep_remote) :
                 ep_remote[i].op \in {"chats.create", "send_message"} =>
                    ep_remote[i].instruction[2] = directive
           /\ CallsTo("agent.chat")[1].language = IF english THEN "en" ELSE "it"

\* C15 witness: English is not allowed, the request asks for " EN ", and the
\* message was sent to the hosted model with the Italian directive.
C15_Witness ==
    /\ ep_req.op = "chat"
    /\ ~allowEnglish
    /\ ep_req.request.language = Text(<<" ", "E", "N", " ">>)
    /\ \E i \in 1..Len(ep_remote) :
          /\ ep_remote[i].op = "send_message"
          /\ ep_remote[i].instruction[2] = "Rispondi sempre in italiano."

\* C16: a request that repeats the one before it, with any conversation_id
\* and the hosted service answering as before, sends the hosted model the
\* same requests as the one before it did.
C16_StatelessPerCall ==
    ep_prev.repeated => ep_remote = ep_prev.remote

(***************************************************************************)
(* Claims about the client handle of the agent across the requests to      *)
(* POST /chat (checked under SpecEndpoint)                                 *)
(***************************************************************************)

\* A request was served in this step.
Served == ep_req'.op = "chat" /\ ep_trace' # <<>>

\* C25: a handle that is a client stays that client through every request
\* (selection, chat and follow-up included); a null handle becomes a client
\* only in a request served with a credential configured and whose
\* genai.Client(...) succeeds, and stays null when that attempt fails or no
\* credential is configured.
C25_HandleOnlyCreated ==
    [][/\ agent_client = Client => agent_client' = Client
       /\ agent_client = NoneVal =>
             agent_client' = IF Served /\ apiKey /\ ep_req'.env.initOk
                             THEN Client ELSE NoneVal
      ]_vars

\* C25 witness: a request whose chat() created the client was sent again;
\* agent.chat was then entered with that client, the follow-up ran with it
\* and the agent still holds it.
C25_Witness ==
    /\ ep_prev.repeated
    /\ agent_client = Client
    /\ ep_req.env.initOk
    /\ CallsTo("agent.chat")[1].client = Client
    /\ Len(CallsTo("agent.generate_follow_up_suggestions")) = 1

\* The requests of the last request served that went to the hosted model
\* with the operation op.
RemoteOps(op) == SelectSeq(ep_remote, LAMBDA r : r.op = op)

\* C27: a request served sends at most one classification request (none when
\* the selector is not called or is called without a client) and at most one
\* chat turn; when the classification raises the selector returns
\* ["general_info"], and when chats.create or the turn raises the answer is
\* the demo response, each after that single attempt.
C27_NoRetries ==
    ep_req.op = "chat" =>
        LET selects == CallsTo("select_stores_for_query")
            classified == RemoteOps("models.generate_content:select")
            turns == RemoteOps("send_message")
            created == RemoteOps("chats.create")
        IN /\ Len(classified) <= 1
           /\ (selects = <<>> \/ ~Truthy(selects[1].client)) => classified = <<>>
           /\ Len(turns) <= 1
           /\ Len(created) <= 1
           /\ (classified # <<>> /\ ep_req.env.select.kind = "raise") =>
                 selects[1].ret = <<"general_info">>
           /\ (created # <<>> /\ ep_req.env.chat.create = "raise") =>
                 /\ turns = <<>>
                 /\ ep_resp.body.response = DemoResponse(ep_req.request.message).response
           /\ (turns # <<>> /\ ep_req.env.chat.send = "raise") =>
                 ep_resp.body.response = DemoResponse(ep_req.request.message).response

\* C27 witness: the classification raised and chats.create raised: one
\* classification request, one chats.create, no turn, the default store and
\* the demo response.
C27_Witness ==
    /\ ep_req.op = "chat"
    /\ Len(RemoteOps("models.generate_content:select")) = 1
    /\ ep_req.env.select.kind = "raise"
    /\ CallsTo("select_stores_for_query")[1].ret = <<"general_info">>
    /\ Len(RemoteOps("chats.create")) = 1
    /\ ep_req.env.chat.create = "raise"
    /\ RemoteOps("send_message") = <<>>
    /\ ep_resp.body.response = DemoResponse(ep_req.request.message).response

\* C29: in a request served without a domain, a selector that was given a
\* null handle is followed by a chat step that finds no client either: no
\* chat is created on the hosted model and the agent has no client after the
\* request.
C29_SameAvailability ==
    (/\ ep_req.op = "chat"
     /\ CallsTo("select_stores_for_query") # <<>>
     /\ ~Truthy(CallsTo("select_stores_for_query")[1].client)) =>
        /\ RemoteOps("chats.create") = <<>>
        /\ ~Truthy(agent_client)

(***************************************************************************)
(* Claims about the replacement of documents (checked under SpecDocs)      *)
(***************************************************************************)

\* The documents of a store that go by the file name: by their display name
\* or by their file_name metadata entry.
DocsOfFile(storeName, fileName) ==
    {i \in 1..Len(documents) :
        /\ documents[i].parent = storeName
        /\ \/ documents[i].display_name = fileName
           \/ documents[i].file_name = fileName}

\* C28: every store holds at most one document per file name.
C28_OneDocumentPerFilename ==
    \A i \in 1..Len(documents) :
        Cardinality(DocsOfFile(documents[i].parent, documents[i].file_name)) <= 1

(***************************************************************************)
(* Claims about concurrent requests (checked under SpecConcurrent)         *)
(***************************************************************************)

\* C26: the response to every request served concurrently with others is
\* the response the request gets when it is served alone, the service
\* answering the same.
C26_AsIfAlone ==
    \A r \in DOMAIN cc_pc :
        cc_pc[r] = "done" => cc_resp[r] = AloneResponse(r)

(***************************************************************************)
(* Claims about the waiting loops of upload_document (checked under        *)
(* SpecUploadLive)                                                         *)
(***************************************************************************)

\* C30: when the hosted service gets done with the temporary file and with
\* the indexing, an upload that has started ends: it raises or it returns;
\* it raises RuntimeError only for a file neither PROCESSING nor ACTIVE and
\* returns only after it read the operation as done; and while the file is
\* PROCESSING or the indexing is not finished at the hosted service, a
\* waiting loop is left only by an exception of its polling call, however
\* many polls were made.
C30_UploadTerminates ==
    /\ (u_pc \in FileLoop \cup {"import"} \cup OperationLoop) ~> (u_pc \in UploadEnded)
    /\ [][/\ (u_pc \in FileLoop /\ u_pc' \notin FileLoop) =>
              \/ u_pc' = "import" /\ u_temp = "ACTIVE" /\ b_file = "ACTIVE"
              \/ /\ u_out' = [kind |-> "raised", error |-> "RuntimeError"]
                 /\ u_temp \notin {"PROCESSING", "ACTIVE"}
                 /\ b_file # "PROCESSING"
              \/ /\ u_out' = [kind |-> "raised", error |-> "Exception"]
                 /\ u_pc = "file_get"
          /\ (u_pc \in OperationLoop /\ u_pc' \notin OperationLoop) =>
              \/ u_pc' = "returned" /\ u_op /\ b_op
              \/ /\ u_out' = [kind |-> "raised", error |-> "Exception"]
                 /\ u_pc = "op_get"
       ]_vars

\* C30 witness: an upload returned after both loops polled MaxPolls times
\* or more.
C30_Witness ==
    /\ u_pc = "returned"
    /\ u_out.kind = "returned"
    /\ u_polls = <<MaxPolls, MaxPolls>>
    /\ Len(documents) > 0

====
